---- MODULE Spec2Model ----
(***************************************************************************)
(* chameleon-core: the schema AST, the type checker and the migration      *)
(* generator, as a state machine over one Schema value, and the            *)
(* diagnostics of the parser as functions of a source text.                *)
(*                                                                         *)
(* A std::collections::HashMap is modelled as a sequence of entries        *)
(* [key, val] with pairwise distinct keys.  The order of the sequence is   *)
(* the iteration order of that HashMap instance: it is fixed while the map *)
(* is not modified, and it is not determined by the map's contents.        *)
(* A Vec is a sequence.  Option<T> is the value None or a value of T.      *)
(***************************************************************************)
EXTENDS Integers, Sequences, FiniteSets, TLC

VARIABLES
    schema,      \* ast::Schema.entities : Vec<Entity>
    checks,      \* results of the type_check(&schema) calls made so far
    migrations,  \* results of the generate_migration(&schema) calls made so far
    diagnostic   \* the last call into the parser's diagnostics: input and result

vars == <<schema, checks, migrations, diagnostic>>

(***************************************************************************)
(* Bounds of the model                                                     *)
(***************************************************************************)
MaxEntities == 3
MaxRels == 2
MaxCalls == 2

None == "None"

\* no call into the diagnostics yet
NoDiagnostic == [op |-> None]

(***************************************************************************)
(* Sequence helpers                                                        *)
(***************************************************************************)
Range(s) == {s[i] : i \in 1..Len(s)}

Contains(s, x) == \E i \in 1..Len(s) : s[i] = x

\* slice.iter().position(|n| n == x), 1-based; 0 when absent
Position(s, x) ==
    IF Contains(s, x) THEN CHOOSE i \in 1..Len(s) : s[i] = x /\ \A j \in 1..(i-1) : s[j] # x
    ELSE 0

\* Vec::pop
Pop(s) == IF Len(s) = 0 THEN s ELSE SubSeq(s, 1, Len(s) - 1)

RECURSIVE Concat(_)
Concat(ss) == IF Len(ss) = 0 THEN <<>> ELSE Head(ss) \o Concat(Tail(ss))

\* the values of a HashMap in its iteration order
Values(m) == [i \in 1..Len(m) |-> m[i].val]

Keys(m) == [i \in 1..Len(m) |-> m[i].key]

ContainsKey(m, k) == \E i \in 1..Len(m) : m[i].key = k

\* all orderings of a finite set, as sequences
Perms(S) == {p \in [1..Cardinality(S) -> S] : \A i, j \in 1..Cardinality(S) : p[i] = p[j] => i = j}

(***************************************************************************)
(* ast                                                                     *)
(***************************************************************************)
RelationKind == {"HasOne", "HasMany", "BelongsTo", "ManyToMany"}

Relation(n, k, t, fk) ==
    [name |-> n, kind |-> k, target_entity |-> t, foreign_key |-> fk, through |-> None]

Field(n, ty, nl, uq, pk, df, be) ==
    [name |-> n, field_type |-> ty, nullable |-> nl, unique |-> uq,
     primary_key |-> pk, default |-> df, backend |-> be]

Entity(n, fs, rs) == [name |-> n, fields |-> fs, relations |-> rs]

\* Entity::new followed by add_field / add_relation: the key of an entry is
\* the name of the value it holds
Entry(v) == [key |-> v.name, val |-> v]

\* the last entity named n taken for the first one
EntityIndexLast(s, n) ==
    IF \E i \in 1..Len(s) : s[i].name = n
    THEN CHOOSE i \in 1..Len(s) : s[i].name = n /\ \A j \in (i+1)..Len(s) : s[j].name # n
    ELSE 0


\* index of the first entity named n, 0 when there is none
EntityIndex(s, n) ==
    IF \E i \in 1..Len(s) : s[i].name = n
    THEN CHOOSE i \in 1..Len(s) : s[i].name = n /\ \A j \in 1..(i-1) : s[j].name # n
    ELSE 0

HasEntity(s, n) == EntityIndex(s, n) # 0

get_entity(s, n) == s[EntityIndex(s, n)]

\* FieldType: the seven scalars, Vector(dim) and Array(elem)
ScalarTypes == {"UUID", "String", "Int", "Decimal", "Bool", "Timestamp", "Float"}

Scalar(t) == [tag |-> t, dim |-> 0, elem |-> <<>>]

Vector(n) == [tag |-> "Vector", dim |-> n, elem |-> <<>>]

Array(ty) == [tag |-> "Array", dim |-> 0, elem |-> <<ty>>]

\* #[derive(Debug)] rendering of a FieldType, as format!("{:?}", ..) gives it
RECURSIVE DebugType(_)
DebugType(ty) ==
    IF ty.tag = "Vector" THEN "Vector(" \o ToString(ty.dim) \o ")"
    ELSE IF ty.tag = "Array" THEN "Array(" \o DebugType(ty.elem[1]) \o ")"
    ELSE ty.tag

BackendAnnotation == {"OLTP", "Cache", "OLAP", "Vector", "ML"}

\* format!("{:?}", annotation).to_lowercase()
AnnotationLower(a) ==
    CASE a = "OLTP" -> "oltp"
      [] a = "Cache" -> "cache"
      [] a = "OLAP" -> "olap"
      [] a = "Vector" -> "vector"
      [] a = "ML" -> "ml"

(***************************************************************************)
(* typechecker::errors                                                     *)
(***************************************************************************)
UnknownRelationTarget(e, r, t) ==
    [kind |-> "UnknownRelationTarget", entity |-> e, relation |-> r, target |-> t]

InvalidForeignKey(e, r, t, fk) ==
    [kind |-> "InvalidForeignKey", entity |-> e, relation |-> r, target |-> t,
     foreign_key |-> fk]

MissingForeignKey(e, r) ==
    [kind |-> "MissingForeignKey", entity |-> e, relation |-> r]

MissingPrimaryKey(e) == [kind |-> "MissingPrimaryKey", entity |-> e]

MultiplePrimaryKeys(e, fs) ==
    [kind |-> "MultiplePrimaryKeys", entity |-> e, fields |-> fs]

InvalidVectorAnnotation(e, f, ty) ==
    [kind |-> "InvalidVectorAnnotation", entity |-> e, field |-> f, actual_type |-> ty]

AnnotationOnConstrainedField(e, f, c, a) ==
    [kind |-> "AnnotationOnConstrainedField", entity |-> e, field |-> f,
     constraint |-> c, annotation |-> a]

CircularDependency(c) == [kind |-> "CircularDependency", cycle |-> c]

DuplicateEntity(e, a, b) ==
    [kind |-> "DuplicateEntity", entity |-> e, first |-> a, second |-> b]

DuplicateField(e, f) == [kind |-> "DuplicateField", entity |-> e, field |-> f]

(***************************************************************************)
(* typechecker::relations                                                  *)
(* relations.rs reads schema.entities through the name-keyed calls         *)
(* contains_key / get / keys; over the Vec<Entity> of ast they are the     *)
(* lookup by name of Schema::get_entity and the walk of the entities in    *)
(* declaration order.                                                      *)
(***************************************************************************)
\* the kind test of the foreign-key rule left out: every relation needs one
relation_errors_any_kind(s, entity_name, relation) ==
    IF ~HasEntity(s, relation.target_entity)
    THEN <<UnknownRelationTarget(entity_name, relation.name, relation.target_entity)>>
    ELSE IF relation.foreign_key = None
    THEN <<MissingForeignKey(entity_name, relation.name)>>
    ELSE IF ~ContainsKey(get_entity(s, relation.target_entity).fields, relation.foreign_key)
    THEN <<InvalidForeignKey(entity_name, relation.name, relation.target_entity,
                             relation.foreign_key)>>
    ELSE <<>>

\* the foreign-key rule tried before the target lookup
relation_errors_key_first(s, entity_name, relation) ==
    IF relation.kind = "HasMany" /\ relation.foreign_key = None
    THEN <<MissingForeignKey(entity_name, relation.name)>>
    ELSE IF ~HasEntity(s, relation.target_entity)
    THEN <<UnknownRelationTarget(entity_name, relation.name, relation.target_entity)>>
    ELSE IF relation.foreign_key # None
            /\ ~ContainsKey(get_entity(s, relation.target_entity).fields, relation.foreign_key)
    THEN <<InvalidForeignKey(entity_name, relation.name, relation.target_entity,
                             relation.foreign_key)>>
    ELSE <<>>

\* relations.rs:9-41: the checks of one relation, at most one error, first match
relation_errors(s, entity_name, relation) ==
    IF ~HasEntity(s, relation.target_entity)
    THEN <<UnknownRelationTarget(entity_name, relation.name, relation.target_entity)>>
    ELSE IF relation.kind = "HasMany" /\ relation.foreign_key = None
    THEN <<MissingForeignKey(entity_name, relation.name)>>
    ELSE IF relation.foreign_key # None
            /\ ~ContainsKey(get_entity(s, relation.target_entity).fields, relation.foreign_key)
    THEN <<InvalidForeignKey(entity_name, relation.name, relation.target_entity,
                             relation.foreign_key)>>
    ELSE <<>>

check_relations(s) ==
    Concat([i \in 1..Len(s) |->
        Concat([j \in 1..Len(s[i].relations) |->
            relation_errors(s, s[i].name, s[i].relations[j].val)])])

\* the skip of the mirror side left out
SkipsRelationNever(relation) == FALSE

\* has_many taken for a mirror side as well
SkipsRelationHasMany(relation) == relation.kind \in {"BelongsTo", "HasMany"}

\* relations.rs:75-78: the relations the cycle search does not follow
SkipsRelation(relation) == relation.kind = "BelongsTo"

\* the repeated name not appended: the path is left open
CyclePathOpen(in_stack, target) ==
    SubSeq(in_stack, Position(in_stack, target), Len(in_stack))

\* relations.rs:86-90: the path reported when target is met again on the stack
CyclePath(in_stack, target) ==
    Append(SubSeq(in_stack, Position(in_stack, target), Len(in_stack)), target)

RECURSIVE dfs(_, _, _, _), dfs_relations(_, _, _, _, _)
\* the for loop of dfs over entity.relations, from the j-th relation on
dfs_relations(s, rels, j, visited, in_stack) ==
    IF j > Len(rels)
    THEN [found |-> FALSE, cycle |-> <<>>, visited |-> visited, in_stack |-> in_stack]
    ELSE LET relation == rels[j]
             target == relation.target_entity
         IN IF SkipsRelation(relation)
            THEN dfs_relations(s, rels, j + 1, visited, in_stack)
            ELSE IF ~Contains(visited, target)
            THEN LET r == dfs(s, target, visited, in_stack)
                 IN IF r.found THEN r
                    ELSE dfs_relations(s, rels, j + 1, r.visited, r.in_stack)
            ELSE IF Contains(in_stack, target)
            THEN [found |-> TRUE, cycle |-> CyclePath(in_stack, target),
                  visited |-> visited, in_stack |-> in_stack]
            ELSE dfs_relations(s, rels, j + 1, visited, in_stack)

\* dfs returns Some(cycle) without popping in_stack, None after popping it
dfs(s, current, visited, in_stack) ==
    LET v1 == Append(visited, current)
        k1 == Append(in_stack, current)
    IN IF HasEntity(s, current)
       THEN LET r == dfs_relations(s, Values(get_entity(s, current).relations), 1, v1, k1)
            IN IF r.found THEN r ELSE [r EXCEPT !.in_stack = Pop(r.in_stack)]
       ELSE [found |-> FALSE, cycle |-> <<>>, visited |-> v1, in_stack |-> Pop(k1)]

RECURSIVE circular_roots(_, _, _, _, _)
\* the for loop of check_circular_dependencies, from the i-th entity on
circular_roots(s, i, errors, visited, in_stack) ==
    IF i > Len(s) THEN errors
    ELSE IF Contains(visited, s[i].name)
    THEN circular_roots(s, i + 1, errors, visited, in_stack)
    ELSE LET r == dfs(s, s[i].name, visited, in_stack)
         IN circular_roots(s, i + 1,
                IF r.found THEN Append(errors, CircularDependency(r.cycle)) ELSE errors,
                r.visited, r.in_stack)

check_circular_dependencies(s) == circular_roots(s, 1, <<>>, <<>>, <<>>)

(***************************************************************************)
(* typechecker::constraints                                                *)
(***************************************************************************)
\* the keys of the fields with primary_key, in iteration order
primary_keys(entity) ==
    Keys(SelectSeq(entity.fields, LAMBDA en : en.val.primary_key))

\* only the first of the primary keys named
primary_key_errors_first_named(entity) ==
    LET pks == primary_keys(entity)
    IN IF Len(pks) = 0 THEN <<MissingPrimaryKey(entity.name)>>
       ELSE IF Len(pks) = 1 THEN <<>>
       ELSE <<MultiplePrimaryKeys(entity.name, <<pks[1]>>)>>


primary_key_errors(entity) ==
    LET pks == primary_keys(entity)
    IN IF Len(pks) = 0 THEN <<MissingPrimaryKey(entity.name)>>
       ELSE IF Len(pks) = 1 THEN <<>>
       ELSE <<MultiplePrimaryKeys(entity.name, pks)>>

check_primary_keys(s) == Concat([i \in 1..Len(s) |-> primary_key_errors(s[i])])

\* the three rules chained: the first that fires ends the field's checks
annotation_errors_first_only(entity, field) ==
    IF field.backend = None THEN <<>>
    ELSE IF field.backend = "Vector" /\ field.field_type.tag # "Vector"
    THEN <<InvalidVectorAnnotation(entity.name, field.name, DebugType(field.field_type))>>
    ELSE IF field.primary_key
    THEN <<AnnotationOnConstrainedField(entity.name, field.name, "primary",
                                        AnnotationLower(field.backend))>>
    ELSE IF field.unique
    THEN <<AnnotationOnConstrainedField(entity.name, field.name, "unique",
                                        AnnotationLower(field.backend))>>
    ELSE <<>>


annotation_errors(entity, field) ==
    IF field.backend = None THEN <<>>
    ELSE (IF field.backend = "Vector" /\ field.field_type.tag # "Vector"
          THEN <<InvalidVectorAnnotation(entity.name, field.name,
                                         DebugType(field.field_type))>>
          ELSE <<>>)
      \o (IF field.primary_key
          THEN <<AnnotationOnConstrainedField(entity.name, field.name, "primary",
                                              AnnotationLower(field.backend))>>
          ELSE <<>>)
      \o (IF field.unique
          THEN <<AnnotationOnConstrainedField(entity.name, field.name, "unique",
                                              AnnotationLower(field.backend))>>
          ELSE <<>>)

check_annotations(s) ==
    Concat([i \in 1..Len(s) |->
        Concat([j \in 1..Len(s[i].fields) |-> annotation_errors(s[i], s[i].fields[j].val)])])

(***************************************************************************)
(* typechecker::type_check                                                 *)
(***************************************************************************)
\* entity_names[n]: the 0-based positions of the entities named n, ascending
entity_indices(s, n) ==
    LET idx == SelectSeq([i \in 1..Len(s) |-> i], LAMBDA i : s[i].name = n)
    IN [k \in 1..Len(idx) |-> idx[k] - 1]

\* the guard pos > 0 left out: the first occurrence is reported as well
duplicate_entity_errors_all(entity_name, indices) ==
    IF Len(indices) > 1
    THEN [p \in 1..Len(indices) |->
            DuplicateEntity(entity_name, indices[1] + 1, indices[p] + 1)]
    ELSE <<>>

\* mod.rs:51-62: the errors of one entry of entity_names
duplicate_entity_errors(entity_name, indices) ==
    IF Len(indices) > 1
    THEN [p \in 1..(Len(indices) - 1) |->
            DuplicateEntity(entity_name, indices[1] + 1, indices[p + 1] + 1)]
    ELSE <<>>

\* the keys of entity_names: the distinct entity names
EntityNameKeys(s) == {s[i].name : i \in 1..Len(s)}

\* mod.rs:50-63; key_order is the iteration order of the local map entity_names
check_duplicate_entities(s, key_order) ==
    Concat([k \in 1..Len(key_order) |->
        duplicate_entity_errors(key_order[k], entity_indices(s, key_order[k]))])

\* field_names[n]: the positions in entity.fields.values() of the fields named n
field_indices(entity, n) ==
    LET idx == SelectSeq([i \in 1..Len(entity.fields) |-> i],
                         LAMBDA i : entity.fields[i].val.name = n)
    IN [k \in 1..Len(idx) |-> idx[k] - 1]

\* the first position at which each field name occurs, ascending: one per name
FieldNameKeys(entity) ==
    SelectSeq([i \in 1..Len(entity.fields) |-> i],
              LAMBDA i : \A j \in 1..(i - 1) :
                  entity.fields[j].val.name # entity.fields[i].val.name)

\* mod.rs:66-84: one DuplicateField per field name held by more than one value
duplicate_field_errors(entity) ==
    LET ks == FieldNameKeys(entity)
    IN Concat([k \in 1..Len(ks) |->
        LET n == entity.fields[ks[k]].val.name
        IN IF Len(field_indices(entity, n)) > 1
           THEN <<DuplicateField(entity.name, n)>> ELSE <<>>])

check_duplicate_fields(s) == Concat([i \in 1..Len(s) |-> duplicate_field_errors(s[i])])

type_check(s, key_order) ==
    check_duplicate_entities(s, key_order)
    \o check_duplicate_fields(s)
    \o check_relations(s)
    \o check_circular_dependencies(s)
    \o check_primary_keys(s)
    \o check_annotations(s)

(***************************************************************************)
(* migration::type_map                                                     *)
(***************************************************************************)
\* the element type of an array mapped, the array suffix forgotten
to_postgres_type_of_element(field_type) ==
    LET ty == IF field_type.tag = "Array" THEN field_type.elem[1] ELSE field_type
    IN CASE ty.tag = "UUID" -> "UUID"
         [] ty.tag = "String" -> "VARCHAR"
         [] ty.tag = "Int" -> "INTEGER"
         [] ty.tag = "Decimal" -> "NUMERIC"
         [] ty.tag = "Bool" -> "BOOLEAN"
         [] ty.tag = "Timestamp" -> "TIMESTAMP"
         [] ty.tag = "Float" -> "DOUBLE PRECISION"
         [] ty.tag = "Vector" -> "VECTOR(" \o ToString(ty.dim) \o ")"
         [] ty.tag = "Array" -> "ARRAY"


RECURSIVE to_postgres_type(_)
to_postgres_type(field_type) ==
    CASE field_type.tag = "UUID" -> "UUID"
      [] field_type.tag = "String" -> "VARCHAR"
      [] field_type.tag = "Int" -> "INTEGER"
      [] field_type.tag = "Decimal" -> "NUMERIC"
      [] field_type.tag = "Bool" -> "BOOLEAN"
      [] field_type.tag = "Timestamp" -> "TIMESTAMP"
      [] field_type.tag = "Float" -> "DOUBLE PRECISION"
      [] field_type.tag = "Vector" -> "VECTOR(" \o ToString(field_type.dim) \o ")"
      [] field_type.tag = "Array" -> to_postgres_type(field_type.elem[1]) \o "[]"

\* DefaultValue: [tag |-> "Now"], [tag |-> "UUIDv4"], [tag |-> "Literal", text |-> s]
Now == [tag |-> "Now", text |-> ""]

UUIDv4 == [tag |-> "UUIDv4", text |-> ""]

Literal(s) == [tag |-> "Literal", text |-> s]

\* Option<DefaultValue>::None
NoDefault == [tag |-> "None", text |-> ""]

\* the text with every single quote doubled, as SQL escapes it
RECURSIVE DoubledQuotes(_)
DoubledQuotes(s) ==
    IF Len(s) = 0 THEN ""
    ELSE (IF SubSeq(s, 1, 1) = "'" THEN "''" ELSE SubSeq(s, 1, 1))
         \o DoubledQuotes(SubSeq(s, 2, Len(s)))

\* the literal escaped before it is quoted
to_postgres_default_escaped(default) ==
    CASE default.tag = "Now" -> "NOW()"
      [] default.tag = "UUIDv4" -> "gen_random_uuid()"
      [] default.tag = "Literal" -> "'" \o DoubledQuotes(default.text) \o "'"


to_postgres_default(default) ==
    CASE default.tag = "Now" -> "NOW()"
      [] default.tag = "UUIDv4" -> "gen_random_uuid()"
      [] default.tag = "Literal" -> "'" \o default.text \o "'"

(***************************************************************************)
(* migration::generator                                                    *)
(***************************************************************************)
\* crate::sql::naming::entity_to_table, on the entity names of the model
entity_to_table(name) ==
    CASE name = "User" -> "users"
      [] name = "Order" -> "orders"
      [] name = "OrderItem" -> "order_items"
      [] name = "Product" -> "products"

\* [String].join(sep)
RECURSIVE Join(_, _)
Join(parts, sep) ==
    IF Len(parts) = 0 THEN ""
    ELSE IF Len(parts) = 1 THEN parts[1]
    ELSE parts[1] \o sep \o Join(Tail(parts), sep)

MigCircularDependency(n) == [kind |-> "CircularDependency", name |-> n]

MigUnknownEntity(n) == [kind |-> "UnknownEntity", name |-> n]

NoError == [kind |-> "None", name |-> ""]

\* a slip in the kind test: every owning kind taken for a dependency
IsDependencyEdgeOfAnyKind(relation, current) ==
    relation.kind # "BelongsTo" /\ relation.target_entity = current


\* a slip in the kind test: the mirror side taken for the owning side
IsDependencyEdgeMirror(relation, current) ==
    relation.kind = "BelongsTo" /\ relation.target_entity = current

\* generator.rs:159: the relations that make their owner a dependency of current
IsDependencyEdge(relation, current) ==
    relation.kind = "HasMany" /\ relation.target_entity = current

\* the skip of the entity's own relations left out
IsCurrentNever(other_entity, current) == FALSE

\* generator.rs:155-157: topo_sort skips the relations current declares itself
IsCurrent(other_entity, current) == other_entity.name = current

RECURSIVE topo_sort(_, _, _, _, _), topo_others(_, _, _, _, _, _, _)
\* only the relation that iterates first in each other entity is looked at
topo_others_first_relation(s, current, i, j, order, visited, in_stack) ==
    IF i > Len(s)
    THEN [err |-> NoError, order |-> order, visited |-> visited, in_stack |-> in_stack]
    ELSE IF IsCurrent(s[i], current) \/ j > Len(s[i].relations) \/ j > 1
    THEN topo_others(s, current, i + 1, 1, order, visited, in_stack)
    ELSE IF IsDependencyEdge(s[i].relations[j].val, current)
    THEN LET r == topo_sort(s, s[i].name, order, visited, in_stack)
         IN IF r.err # NoError THEN r
            ELSE topo_others(s, current, i, j + 1, r.order, r.visited, r.in_stack)
    ELSE topo_others(s, current, i, j + 1, order, visited, in_stack)


\* the nested for loops of topo_sort, from relation j of entity i on
topo_others(s, current, i, j, order, visited, in_stack) ==
    IF i > Len(s)
    THEN [err |-> NoError, order |-> order, visited |-> visited, in_stack |-> in_stack]
    ELSE IF IsCurrent(s[i], current) \/ j > Len(s[i].relations)
    THEN topo_others(s, current, i + 1, 1, order, visited, in_stack)
    ELSE IF IsDependencyEdge(s[i].relations[j].val, current)
    THEN LET r == topo_sort(s, s[i].name, order, visited, in_stack)
         IN IF r.err # NoError THEN r
            ELSE topo_others(s, current, i, j + 1, r.order, r.visited, r.in_stack)
    ELSE topo_others(s, current, i, j + 1, order, visited, in_stack)

topo_sort(s, current, order, visited, in_stack) ==
    IF Contains(in_stack, current)
    THEN [err |-> MigCircularDependency(current), order |-> order,
          visited |-> visited, in_stack |-> in_stack]
    ELSE IF Contains(visited, current)
    THEN [err |-> NoError, order |-> order, visited |-> visited, in_stack |-> in_stack]
    ELSE LET r == topo_others(s, current, 1, 1, order, visited, Append(in_stack, current))
         IN IF r.err # NoError THEN r
            ELSE [err |-> NoError,
                  order |-> Append(r.order, current),
                  visited |-> Append(r.visited, current),
                  in_stack |-> Pop(r.in_stack)]

RECURSIVE creation_roots(_, _, _, _, _)
\* the for loop of resolve_creation_order, from the i-th entity on
creation_roots(s, i, order, visited, in_stack) ==
    IF i > Len(s) THEN [err |-> NoError, order |-> order]
    ELSE IF Contains(visited, s[i].name)
    THEN creation_roots(s, i + 1, order, visited, in_stack)
    ELSE LET r == topo_sort(s, s[i].name, order, visited, in_stack)
         IN IF r.err # NoError THEN [err |-> r.err, order |-> <<>>]
            ELSE creation_roots(s, i + 1, r.order, r.visited, r.in_stack)

resolve_creation_order(s) == creation_roots(s, 1, <<>>, <<>>, <<>>)

\* a field placed in another backend taken for a column the table need not fill
column_of_primary_store(field) ==
    "    " \o field.name \o " " \o to_postgres_type(field.field_type)
    \o (IF field.primary_key THEN " PRIMARY KEY" ELSE "")
    \o (IF ~field.nullable /\ ~field.primary_key /\ field.backend = None
        THEN " NOT NULL" ELSE "")
    \o (IF field.unique THEN " UNIQUE" ELSE "")
    \o (IF field.default # NoDefault
        THEN " DEFAULT " \o to_postgres_default(field.default) ELSE "")


\* NOT NULL written for every field that is not nullable, the key included
column_key_not_null(field) ==
    "    " \o field.name \o " " \o to_postgres_type(field.field_type)
    \o (IF field.primary_key THEN " PRIMARY KEY" ELSE "")
    \o (IF ~field.nullable THEN " NOT NULL" ELSE "")
    \o (IF field.unique THEN " UNIQUE" ELSE "")
    \o (IF field.default # NoDefault
        THEN " DEFAULT " \o to_postgres_default(field.default) ELSE "")


\* generator.rs:43-69: the column of one field
column(field) ==
    "    " \o field.name \o " " \o to_postgres_type(field.field_type)
    \o (IF field.primary_key THEN " PRIMARY KEY" ELSE "")
    \o (IF ~field.nullable /\ ~field.primary_key THEN " NOT NULL" ELSE "")
    \o (IF field.unique THEN " UNIQUE" ELSE "")
    \o (IF field.default # NoDefault
        THEN " DEFAULT " \o to_postgres_default(field.default) ELSE "")

\* the target test left out: a constraint for every has_many relation met
foreign_key_constraint_of_any_target(entity, other_entity, relation) ==
    IF relation.kind = "HasMany" /\ relation.foreign_key # None
    THEN <<"    FOREIGN KEY (" \o relation.foreign_key \o ") REFERENCES "
           \o entity_to_table(other_entity.name) \o "(id)">>
    ELSE <<>>


\* generator.rs:89-105: the constraint a relation of other_entity adds to entity
foreign_key_constraint(entity, other_entity, relation) ==
    IF relation.kind = "HasMany" /\ relation.target_entity = entity.name
       /\ relation.foreign_key # None
    THEN <<"    FOREIGN KEY (" \o relation.foreign_key \o ") REFERENCES "
           \o entity_to_table(other_entity.name) \o "(id)">>
    ELSE <<>>

columns_of(entity) == [j \in 1..Len(entity.fields) |-> column(entity.fields[j].val)]

constraints_of(entity, s) ==
    Concat([i \in 1..Len(s) |->
        Concat([j \in 1..Len(s[i].relations) |->
            foreign_key_constraint(entity, s[i], s[i].relations[j].val)])])

generate_create_table(entity, s) ==
    "CREATE TABLE " \o entity_to_table(entity.name) \o " (\n"
    \o Join(columns_of(entity) \o constraints_of(entity, s), ",\n") \o "\n);"

\* the statements joined by a line break, without the blank line
ScriptSeparatorLineBreak == "\n"

\* generator.rs:31: what generate_migration puts between two statements
ScriptSeparator == "\n\n"


generate_migration(s) ==
    LET r == resolve_creation_order(s)
    IN IF r.err # NoError
       THEN [err |-> r.err, sql |-> "", statements |-> <<>>]
       ELSE LET statements == [k \in 1..Len(r.order) |->
                    <<r.order[k], generate_create_table(get_entity(s, r.order[k]), s)>>]
            IN [err |-> NoError,
                sql |-> Join([k \in 1..Len(statements) |-> statements[k][2]],
                            ScriptSeparator),
                statements |-> statements]

(***************************************************************************)
(* parser: the diagnostics                                                 *)
(* A &str is a string of characters.  The character written "~" stands for *)
(* a character whose UTF-8 encoding takes two bytes, such as U+00E9, and    *)
(* "|" in a snippet stands for the bar U+2502 of the source.  The texts of  *)
(* the model hold no carriage return.                                       *)
(***************************************************************************)
Wide == "~"

Bar == "|"

\* the i-th char of text, 1-based
CharAt(text, i) == SubSeq(text, i, i)

\* char::len_utf8
len_utf8(ch) == IF ch = Wide THEN 2 ELSE 1

\* str::len, the length in bytes
RECURSIVE byte_len(_)
byte_len(text) ==
    IF text = "" THEN 0
    ELSE len_utf8(CharAt(text, 1)) + byte_len(SubSeq(text, 2, Len(text)))

\* a function that returned value, and one that panicked
Returned(value) == [panic |-> FALSE, value |-> value]

Panicked == [panic |-> TRUE, value |-> ""]

RECURSIVE position_scan(_, _, _, _, _)
\* parser/mod.rs:28-38: the loop over source.chars().enumerate(), at char i
position_scan(source, offset, i, line, col) ==
    IF i >= Len(source) \/ i >= offset THEN <<line, col>>
    ELSE IF CharAt(source, i + 1) = "\n"
    THEN position_scan(source, offset, i + 1, line + 1, 1)
    ELSE position_scan(source, offset, i + 1, line, col + 1)

offset_to_position(source, offset) == position_scan(source, offset, 0, 1, 1)

RECURSIVE split_lines(_, _, _)
\* str::lines: the text between line breaks, without a last empty line
split_lines(text, current, out) ==
    IF text = "" THEN (IF current = "" THEN out ELSE Append(out, current))
    ELSE IF CharAt(text, 1) = "\n"
    THEN split_lines(SubSeq(text, 2, Len(text)), "", Append(out, current))
    ELSE split_lines(SubSeq(text, 2, Len(text)), current \o CharAt(text, 1), out)

lines(source) == split_lines(source, "", <<>>)

RECURSIVE char_boundary(_, _, _)
\* the number of chars of text before byte index b, counted from char i on;
\* -1 when b is past the end of text or inside a character
char_boundary(text, b, i) ==
    IF b = 0 THEN i
    ELSE IF i >= Len(text) THEN -1
    ELSE IF len_utf8(CharAt(text, i + 1)) > b THEN -1
    ELSE char_boundary(text, b - len_utf8(CharAt(text, i + 1)), i + 1)

\* &text[b..]: the slice from byte index b, which panics off a char boundary
slice_from(text, b) ==
    IF char_boundary(text, b, 0) < 0 THEN Panicked
    ELSE Returned(SubSeq(text, char_boundary(text, b, 0) + 1, Len(text)))

\* parser/mod.rs:69: the characters the carets run over
is_token_char(c) == c \notin {" ", "\t", "\n", ",", "{", "}"}

RECURSIVE take_while_count(_)
take_while_count(text) ==
    IF text = "" \/ ~is_token_char(CharAt(text, 1)) THEN 0
    ELSE 1 + take_while_count(SubSeq(text, 2, Len(text)))

Max(a, b) == IF a >= b THEN a ELSE b

RECURSIVE Repeat(_, _)
Repeat(ch, n) == IF n <= 0 THEN "" ELSE ch \o Repeat(ch, n - 1)

\* format!("{:>width$}", text)
AlignRight(text, width) == Repeat(" ", width - Len(text)) \o text

\* parser/mod.rs:44-78; col is the parameter column.  With col = 0 the
\* subtraction column - 1 overflows: a panic where overflow is checked, and
\* a loop pushing 2^64 - 1 spaces until allocation fails where it is not.
extract_snippet(source, line, col) ==
    IF line = 0 \/ line > Len(lines(source)) THEN Returned("")
    ELSE LET target_line == lines(source)[line]
             line_num_width == Max(Len(ToString(line)), 3)
         IN IF col = 0 THEN Panicked
            ELSE IF slice_from(target_line, col - 1).panic THEN Panicked
            ELSE LET token_len ==
                        Max(take_while_count(slice_from(target_line, col - 1).value), 1)
                 IN Returned(AlignRight(ToString(line), line_num_width)
                             \o " " \o Bar \o " " \o target_line \o "\n"
                             \o AlignRight("", line_num_width) \o " " \o Bar \o " "
                             \o Repeat(" ", col - 1)
                             \o Repeat("^", token_len))


\* str::contains
contains(text, pat) ==
    \E i \in 1..(Len(text) - Len(pat) + 1) : SubSeq(text, i, i + Len(pat) - 1) = pat

RECURSIVE remove_all(_, _)
\* str::replace(pat, ""): every match of pat taken out, from left to right
remove_all(text, pat) ==
    IF text = "" THEN ""
    ELSE IF Len(text) >= Len(pat) /\ SubSeq(text, 1, Len(pat)) = pat
    THEN remove_all(SubSeq(text, Len(pat) + 1, Len(text)), pat)
    ELSE CharAt(text, 1) \o remove_all(SubSeq(text, 2, Len(text)), pat)

UpperCase == "ABCDEFGHIJKLMNOPQRSTUVWXYZ"

LowerCase == "abcdefghijklmnopqrstuvwxyz"

char_to_lowercase(c) ==
    IF \E i \in 1..Len(UpperCase) : CharAt(UpperCase, i) = c
    THEN CharAt(LowerCase, CHOOSE i \in 1..Len(UpperCase) : CharAt(UpperCase, i) = c)
    ELSE c

RECURSIVE to_lowercase(_)
\* str::to_lowercase
to_lowercase(text) ==
    IF text = "" THEN ""
    ELSE char_to_lowercase(CharAt(text, 1)) \o to_lowercase(SubSeq(text, 2, Len(text)))

\* ParseErrorDetail, with the fields parser/mod.rs reads and writes
ParseErrorDetail(message, token, line, col, snippet, suggestion) ==
    [message |-> message, token |-> token, line |-> line, column |-> col,
     snippet |-> snippet, suggestion |-> suggestion]

\* ChameleonError::ParseError(detail), and any other variant
ParseError(detail) == [kind |-> "ParseError", detail |-> detail]

OtherError == [kind |-> "Other", detail |-> None]

\* parser/mod.rs:111-112
token_lower(token) ==
    to_lowercase(remove_all(remove_all(remove_all(token, "Token("), ")"), "\""))

\* the comparison with the keyword left out of the test for 'unique'
keyword_hint_of_any_match(token) ==
    IF \/ contains(token_lower(token), "entiy")
       \/ contains(token_lower(token), "enity")
       \/ contains(token_lower(token), "entit")
       \/ token_lower(token) = "entiy"
    THEN "Did you mean 'entity'?"
    ELSE IF \/ contains(token_lower(token), "primry")
            \/ contains(token_lower(token), "pirmary")
            \/ contains(token_lower(token), "primari")
    THEN "Did you mean 'primary'?"
    ELSE IF contains(token_lower(token), "uniqu")
    THEN "Did you mean 'unique'?"
    ELSE IF \/ contains(token_lower(token), "nullabe")
            \/ contains(token_lower(token), "nulable")
    THEN "Did you mean 'nullable'?"
    ELSE None

\* parser/mod.rs:114-134: the hint for a token, None when no branch matches
keyword_hint(token) ==
    IF \/ contains(token_lower(token), "entiy")
       \/ contains(token_lower(token), "enity")
       \/ contains(token_lower(token), "entit")
       \/ token_lower(token) = "entiy"
    THEN "Did you mean 'entity'?"
    ELSE IF \/ contains(token_lower(token), "primry")
            \/ contains(token_lower(token), "pirmary")
            \/ contains(token_lower(token), "primari")
    THEN "Did you mean 'primary'?"
    ELSE IF contains(token_lower(token), "uniqu") /\ ~contains(token_lower(token), "unique")
    THEN "Did you mean 'unique'?"
    ELSE IF \/ contains(token_lower(token), "nullabe")
            \/ contains(token_lower(token), "nulable")
    THEN "Did you mean 'nullable'?"
    ELSE None

\* parser/mod.rs:138-165: the hint of the first message pattern that matches
message_hint(message) ==
    IF contains(message, "expected one of") /\ contains(message, "\":\"")
    THEN "Fields must have a type after the colon.\nExample: name: string"
    ELSE IF contains(message, "expected one of") /\ contains(message, "\"{\"")
    THEN "Entity definitions must have an opening brace.\nExample: entity User {"
    ELSE IF contains(message, "expected one of") /\ contains(message, "\"}\"")
    THEN "Missing closing brace. Check that all entities are properly closed."
    ELSE IF contains(message, "Unexpected end of file")
    THEN "The file ended unexpectedly. You may be missing a closing brace }"
    ELSE None

\* parser/mod.rs:110-135: the suggestion after the token was looked at
suggestion_of_token(detail) ==
    IF detail.token # None /\ keyword_hint(detail.token) # None
    THEN keyword_hint(detail.token)
    ELSE detail.suggestion

add_suggestions(detail) ==
    [detail EXCEPT !.suggestion =
        IF suggestion_of_token(detail) = None
        THEN message_hint(detail.message)
        ELSE suggestion_of_token(detail)]

\* parser/mod.rs:88-92: the position the snippet is taken at
snippet_position(detail, source) ==
    IF detail.line = 1 /\ detail.column > 1
    THEN offset_to_position(source, detail.column - 1)
    ELSE <<detail.line, detail.column>>

enhance_parse_error(err, source) ==
    IF err.kind = "ParseError"
    THEN LET pos == snippet_position(err.detail, source)
             snippet == extract_snippet(source, pos[1], pos[2])
         IN IF snippet.panic THEN Panicked
            ELSE Returned(ParseError(add_suggestions(
                    [err.detail EXCEPT !.line = pos[1], !.column = pos[2],
                                       !.snippet = snippet.value])))
    ELSE Returned(err)


(***************************************************************************)
(* The schemas the model builds                                            *)
(***************************************************************************)
\* entity names, taken in declaration order
NamePool == <<"User", "Order", "OrderItem", "Product">>

\* a relation target that names no entity
Ghost == "Ghost"

IdField == Field("id", Scalar("UUID"), FALSE, FALSE, TRUE, NoDefault, None)

OwnerIdField == Field("owner_id", Scalar("UUID"), FALSE, FALSE, FALSE, NoDefault, None)

\* the sequences of at most n distinct elements of S
RECURSIVE Arrangements(_, _)
Arrangements(S, n) ==
    IF n = 0 THEN {<<>>}
    ELSE {<<>>} \cup UNION {{<<x>> \o a : a \in Arrangements(S \ {x}, n - 1)} : x \in S}

\* a HashMap filled by add_field / add_relation with the values of vs,
\* iterating in the order of vs
MapOf(vs) == [j \in 1..Len(vs) |-> Entry(vs[j])]

\* the iteration orders a HashMap holding the entries of m can have
Orderings(m) == {[i \in 1..Len(m) |-> m[p[i]]] : p \in Perms(1..Len(m))}

\* a relation is named after its kind and its target
HasManyTo(t) == Relation("many_" \o t, "HasMany", t, "owner_id")

HasOneTo(t) == Relation("one_" \o t, "HasOne", t, None)

ManyToManyTo(t) == Relation("all_" \o t, "ManyToMany", t, None)

BelongsToRel(t) == Relation("of_" \o t, "BelongsTo", t, None)

Targets == Range(SubSeq(NamePool, 1, MaxEntities))

\* entities of the creation-order schemas: has_many relations only
OrderEntities(pos) ==
    {Entity(NamePool[pos], MapOf(<<IdField, OwnerIdField>>), MapOf(rs)) :
        rs \in Arrangements({HasManyTo(t) : t \in Targets \cup {Ghost}}, MaxRels)}

\* the forward relation the pos-th entity of a relation-graph schema declares
Forward(pos, t) ==
    CASE pos % 3 = 1 -> HasManyTo(t)
      [] pos % 3 = 2 -> HasOneTo(t)
      [] pos % 3 = 0 -> ManyToManyTo(t)

\* entities of the relation-graph schemas: forward relations to any entity,
\* and the belongs_to mirror
CycleEntities(pos) ==
    {Entity(NamePool[pos], MapOf(<<IdField, OwnerIdField>>), MapOf(rs)) :
        rs \in Arrangements({Forward(pos, t) : t \in Targets}
                            \cup {BelongsToRel(NamePool[1])}, MaxRels)}

\* entities of the duplicate-name schemas: two names, with or without key
DupEntities ==
    {Entity(n, MapOf(fs), <<>>) :
        n \in {NamePool[1], NamePool[2]}, fs \in {<<IdField>>, <<OwnerIdField>>}}

EmbeddingField == Field("embedding", Vector(3), FALSE, FALSE, FALSE, NoDefault, "Vector")

\* a unique string field under @vector: two annotation defects
EmailField == Field("email", Scalar("String"), FALSE, TRUE, FALSE, NoDefault, "Vector")

\* a has_many relation declared without its foreign key
BareHasManyTo(t) == Relation("bare_" \o t, "HasMany", t, None)

\* entities of the defect schemas: valid and defective fields and relations
CheckEntities(pos) ==
    {Entity(NamePool[pos], MapOf(fs), MapOf(rs)) :
        fs \in {<<IdField, OwnerIdField>>, <<IdField, EmbeddingField>>,
                <<OwnerIdField>>, <<IdField, EmailField>>},
        rs \in Arrangements({HasManyTo(NamePool[2]), HasManyTo(Ghost),
                             BareHasManyTo(NamePool[2]), HasOneTo(NamePool[1]),
                             BelongsToRel(NamePool[1])}, 1)}

\* entities of the re-read schemas: two columns, at most one has_many relation
RereadEntities(pos) ==
    {Entity(NamePool[pos], MapOf(<<IdField, OwnerIdField>>), MapOf(rs)) :
        rs \in Arrangements({HasManyTo(t) : t \in Targets}, 1)}

MaxFields == 3

\* the keys under which a caller stores fields when it fills Entity::fields
\* itself (the map is pub, and Deserialize reads any key)
KeyPool == <<"a", "b", "c", "d", "e">>

\* HashMap::insert(key, field) on the pub map Entity::fields: the key is the
\* caller's, it need not be field.name
AliasEntry(k, v) == [key |-> k, val |-> v]

\* entities whose fields map was filled directly: up to MaxFields entries
\* under distinct keys, each holding a Field named id or owner_id
AliasEntities(pos) ==
    {Entity(NamePool[pos], [j \in 1..n |-> AliasEntry(KeyPool[j], fv[j])], <<>>) :
        n \in 0..MaxFields, fv \in [1..MaxFields -> {IdField, OwnerIdField}]}

MaxShortSchema == 2

\* a has_one relation that names a foreign key
ForeignHasOneTo(t) == Relation("ref_" \o t, "HasOne", t, "owner_id")

\* entities of the relation-validity schemas: the first entity has no
\* owner_id field, the later ones have it; relations of every outcome
RelEntities(pos) ==
    {Entity(NamePool[pos],
            MapOf(IF pos = 1 THEN <<IdField>> ELSE <<IdField, OwnerIdField>>),
            MapOf(rs)) :
        rs \in Arrangements({HasManyTo(NamePool[1]), HasManyTo(NamePool[2]),
                             HasManyTo(Ghost), BareHasManyTo(NamePool[2]),
                             BareHasManyTo(Ghost), ForeignHasOneTo(NamePool[1]),
                             HasOneTo(NamePool[1]), BelongsToRel(NamePool[2])}, MaxRels)}

MaxCheckedFields == 2

\* a string key that is primary, unique and under @vector
CodeField == Field("code", Scalar("String"), FALSE, TRUE, TRUE, NoDefault, "Vector")

\* a second kind of primary key: a vector under @cache
TagField == Field("tag", Vector(3), FALSE, FALSE, TRUE, NoDefault, "Cache")

\* a plain string field under @vector
SummaryField == Field("summary", Scalar("String"), FALSE, FALSE, FALSE, NoDefault, "Vector")

\* an annotated field that breaks no rule
ViewsField == Field("views", Scalar("Int"), FALSE, FALSE, FALSE, NoDefault, "OLAP")

\* entities of the field-rule schemas: up to MaxCheckedFields fields added
\* with add_field, with zero, one or more primary keys and every mix of
\* annotation, type and constraint
FieldEntities(pos) ==
    {Entity(NamePool[pos], MapOf(fs), <<>>) :
        fs \in Arrangements({IdField, OwnerIdField, CodeField, TagField, EmbeddingField,
                             EmailField, SummaryField, ViewsField}, MaxCheckedFields)}

AgeField == Field("age", Scalar("Int"), TRUE, FALSE, FALSE, NoDefault, None)

CreatedAtField == Field("created_at", Scalar("Timestamp"), FALSE, FALSE, FALSE, Now, None)

TokenField == Field("token", Scalar("UUID"), TRUE, TRUE, FALSE, UUIDv4, None)

\* a default whose text holds a single quote
StatusField == Field("status", Scalar("String"), FALSE, FALSE, FALSE, Literal("it's"), None)

\* a key that carries every column keyword but NOT NULL
KeyField == Field("key", Scalar("UUID"), FALSE, TRUE, TRUE, UUIDv4, None)

\* an array of arrays
TagsField == Field("tags", Array(Array(Scalar("String"))), FALSE, FALSE, FALSE, NoDefault, None)

PriceField == Field("price", Scalar("Decimal"), TRUE, FALSE, FALSE, NoDefault, "Cache")

ActiveField == Field("active", Scalar("Bool"), FALSE, FALSE, FALSE, Literal("true"), None)

ScoresField == Field("scores", Array(Scalar("Float")), TRUE, FALSE, FALSE, NoDefault, "ML")

\* the fields an entity of the column schemas chooses from, by position
ColumnFields(pos) ==
    IF pos % 2 = 1
    THEN {IdField, AgeField, EmailField, CreatedAtField, TokenField, StatusField, ViewsField}
    ELSE {KeyField, TagsField, EmbeddingField, PriceField, ActiveField, ScoresField}

\* entities of the column schemas: up to MaxCheckedFields fields of every
\* type, flag and default, and at most one has_many relation
ColumnEntities(pos) ==
    {Entity(NamePool[pos], MapOf(fs), MapOf(rs)) :
        fs \in Arrangements(ColumnFields(pos), MaxCheckedFields),
        rs \in Arrangements({HasManyTo(NamePool[1]), HasManyTo(NamePool[2])}, 1)}

\* entities of the script schemas: one of two names, freely repeated, two
\* columns, at most one has_many relation
ScriptEntities ==
    {Entity(n, MapOf(<<IdField, OwnerIdField>>), MapOf(rs)) :
        n \in {NamePool[1], NamePool[2]},
        rs \in Arrangements({HasManyTo(NamePool[1]), HasManyTo(NamePool[2])}, 1)}

\* entities of the mixed-kind schemas: has_many and has_one relations to any
\* entity
MixedEntities(pos) ==
    {Entity(NamePool[pos], MapOf(<<IdField, OwnerIdField>>), MapOf(rs)) :
        rs \in Arrangements({HasManyTo(t) : t \in Range(SubSeq(NamePool, 1, MaxShortSchema))}
                            \cup {HasOneTo(t) : t \in Range(SubSeq(NamePool, 1, MaxShortSchema))},
                            MaxRels)}


MaxText == 4

\* the characters of the source texts: a letter, a blank, a line break, a
\* comma and a two-byte character
Alphabet == {"a", " ", "\n", ",", Wide}

\* the texts of at most n characters
RECURSIVE Texts(_)
Texts(n) ==
    IF n = 0 THEN {""}
    ELSE Texts(n - 1) \cup {t \o c : t \in Texts(n - 1), c \in Alphabet}

\* offending tokens: misspelled and well spelled keywords, as the lexer
\* names them or bare, and other words
TokenPool ==
    {None, "entiy", "enity", "entit", "Entiy", "entity", "identity",
     "primry", "pirmary", "primari", "primary", "uniqu", "unique", "uniqe",
     "nullabe", "nulable", "nullable", "Token(\"entiy\")", "Token(\"unique\")",
     "strin", "}"}

MessagePool ==
    {"Unrecognized token",
     "Unrecognized token, expected one of \":\"",
     "Unrecognized token, expected one of \"{\"",
     "Unrecognized token, expected one of \"}\"",
     "Unrecognized token, expected one of \"{\", \":\"",
     "Unexpected end of file",
     "Unexpected end of file, expected one of \"}\""}

\* a suggestion the error came with
EarlierSuggestion == "Check the syntax of the schema."

\* the details handed to add_suggestions
DetailPool ==
    {ParseErrorDetail(m, t, 1, 1, None, g) :
        m \in MessagePool, t \in TokenPool, g \in {None, EarlierSuggestion}}

\* the texts handed to enhance_parse_error
SourcePool == {"", "a ~", "a\n~a", "a a,"}

\* the errors handed to enhance_parse_error
ErrorPool ==
    {OtherError} \cup
    {ParseError(ParseErrorDetail(m, t, l, c, None, None)) :
        m \in {"Unrecognized token", "Unrecognized token, expected one of \":\""},
        t \in {None, "entiy", "entity", "strin"},
        l \in 0..2, c \in 1..MaxText}


(***************************************************************************)
(* Operations                                                              *)
(***************************************************************************)
Init ==
    /\ schema = <<>>
    /\ checks = <<>>
    /\ migrations = <<>>
    /\ diagnostic = NoDiagnostic

\* the tree is built first and read afterwards
Building == checks = <<>> /\ migrations = <<>>

\* Schema::add_entity
add_entity(entity) ==
    /\ Building
    /\ Len(schema) < MaxEntities
    /\ schema' = Append(schema, entity)
    /\ UNCHANGED <<checks, migrations, diagnostic>>

AddOrderEntity ==
    /\ Len(schema) < MaxEntities
    /\ \E e \in OrderEntities(Len(schema) + 1) : add_entity(e)

AddCycleEntity ==
    /\ Len(schema) < MaxEntities
    /\ \E e \in CycleEntities(Len(schema) + 1) : add_entity(e)

AddDupEntity == \E e \in DupEntities : add_entity(e)

AddCheckEntity ==
    /\ Len(schema) < MaxEntities
    /\ \E e \in CheckEntities(Len(schema) + 1) : add_entity(e)

AddRereadEntity ==
    /\ Len(schema) < MaxEntities
    /\ \E e \in RereadEntities(Len(schema) + 1) : add_entity(e)

\* the schemas equal to s as values: the same entities with the same fields
\* and relations, their maps iterating in any order
SameSchemas(s) ==
    {r \in [1..Len(s) -> UNION {{Entity(s[i].name, fs, rs) :
                                    fs \in Orderings(s[i].fields),
                                    rs \in Orderings(s[i].relations)} : i \in 1..Len(s)}] :
        \A i \in 1..Len(s) : /\ r[i].name = s[i].name
                              /\ Range(r[i].fields) = Range(s[i].fields)
                              /\ Range(r[i].relations) = Range(s[i].relations)}

\* the schema is read again from the same source (parse_schema, or the JSON
\* handed to the validation entry point): the same declarations land in
\* fresh HashMaps, whose iteration order is not that of the earlier ones
Reread ==
    /\ schema # <<>>
    /\ \E r \in SameSchemas(schema) : r # schema /\ schema' = r
    /\ UNCHANGED <<checks, migrations, diagnostic>>

\* the iteration orders of the local map entity_names that type_check can
\* meet, restricted to the keys that hold more than one index: the other
\* keys emit nothing
KeyOrders(s) == Perms({n \in EntityNameKeys(s) : Len(entity_indices(s, n)) > 1})

\* typechecker::type_check(&schema)
TypeCheck ==
    /\ Len(checks) < MaxCalls
    /\ \E key_order \in KeyOrders(schema) :
            checks' = Append(checks, type_check(schema, key_order))
    /\ UNCHANGED <<schema, migrations, diagnostic>>

\* migration::generate_migration(&schema)
GenerateMigration ==
    /\ Len(migrations) < MaxCalls
    /\ migrations' = Append(migrations, generate_migration(schema))
    /\ UNCHANGED <<schema, checks, diagnostic>>

NextOrder == AddOrderEntity \/ GenerateMigration

SpecOrder == Init /\ [][NextOrder]_vars

NextCycle == AddCycleEntity \/ TypeCheck

SpecCycle == Init /\ [][NextCycle]_vars

NextDup == AddDupEntity \/ TypeCheck

SpecDup == Init /\ [][NextDup]_vars

NextCheck == AddCheckEntity \/ TypeCheck

SpecCheck == Init /\ [][NextCheck]_vars

NextReread == AddRereadEntity \/ Reread \/ GenerateMigration

SpecReread == Init /\ [][NextReread]_vars

Next ==
    \/ AddOrderEntity
    \/ TypeCheck
    \/ GenerateMigration

Spec == Init /\ [][Next]_vars

AddAliasEntity ==
    /\ Len(schema) < MaxEntities
    /\ \E e \in AliasEntities(Len(schema) + 1) : add_entity(e)

NextAlias == AddAliasEntity \/ TypeCheck

SpecAlias == Init /\ [][NextAlias]_vars

AddRelEntity ==
    /\ Len(schema) < MaxShortSchema
    /\ \E e \in RelEntities(Len(schema) + 1) : add_entity(e)

NextRel == AddRelEntity \/ TypeCheck

SpecRel == Init /\ [][NextRel]_vars

AddFieldEntity ==
    /\ Len(schema) < MaxShortSchema
    /\ \E e \in FieldEntities(Len(schema) + 1) : add_entity(e)

NextField == AddFieldEntity \/ TypeCheck

SpecField == Init /\ [][NextField]_vars

AddColumnEntity ==
    /\ Len(schema) < MaxShortSchema
    /\ \E e \in ColumnEntities(Len(schema) + 1) : add_entity(e)

NextColumn == AddColumnEntity \/ GenerateMigration

SpecColumn == Init /\ [][NextColumn]_vars

AddScriptEntity == \E e \in ScriptEntities : add_entity(e)

NextScript == AddScriptEntity \/ GenerateMigration

SpecScript == Init /\ [][NextScript]_vars

AddMixedEntity ==
    /\ Len(schema) < MaxShortSchema
    /\ \E e \in MixedEntities(Len(schema) + 1) : add_entity(e)

NextMixed == AddMixedEntity \/ TypeCheck \/ GenerateMigration

\* schemas of has_many and has_one relations, checked and generated
SpecMixed == Init /\ [][NextMixed]_vars


NextNamesake == AddDupEntity \/ GenerateMigration

\* schemas with repeated entity names, generated
SpecNamesake == Init /\ [][NextNamesake]_vars


\* The diagnostics are functions of their arguments alone and keep nothing
\* between calls: a behaviour makes one call.
\* one call of offset_to_position
OffsetToPosition ==
    /\ diagnostic = NoDiagnostic
    /\ \E source \in Texts(MaxText) : \E offset \in 0..byte_len(source) :
            diagnostic' = [op |-> "offset_to_position", source |-> source,
                           offset |-> offset,
                           result |-> offset_to_position(source, offset)]
    /\ UNCHANGED <<schema, checks, migrations>>

\* one call of extract_snippet
ExtractSnippet ==
    /\ diagnostic = NoDiagnostic
    /\ \E source \in Texts(MaxText) :
       \E line \in 0..(MaxText + 1) : \E col \in 0..(MaxText + 1) :
            diagnostic' = [op |-> "extract_snippet", source |-> source,
                           line |-> line, column |-> col,
                           result |-> extract_snippet(source, line, col)]
    /\ UNCHANGED <<schema, checks, migrations>>

\* one call of add_suggestions
AddSuggestions ==
    /\ diagnostic = NoDiagnostic
    /\ \E detail \in DetailPool :
            diagnostic' = [op |-> "add_suggestions", detail |-> detail,
                           result |-> add_suggestions(detail)]
    /\ UNCHANGED <<schema, checks, migrations>>

\* the error arm of parse_schema: one call of enhance_parse_error
EnhanceParseError ==
    /\ diagnostic = NoDiagnostic
    /\ \E err \in ErrorPool : \E source \in SourcePool :
            diagnostic' = [op |-> "enhance_parse_error", err |-> err,
                           source |-> source,
                           result |-> enhance_parse_error(err, source)]
    /\ UNCHANGED <<schema, checks, migrations>>

NextDiagnostics ==
    OffsetToPosition \/ ExtractSnippet \/ AddSuggestions \/ EnhanceParseError

\* the diagnostics of the parser, applied to texts and errors
SpecDiagnostics == Init /\ [][NextDiagnostics]_vars


(***************************************************************************)
(* Graphs over entity names, for the statements about orders and cycles    *)
(***************************************************************************)
RECURSIVE Closure(_, _, _)
Closure(R, E, n) ==
    IF n = 0 THEN R
    ELSE Closure(R \cup {<<x[1][1], x[2][2]>> : x \in {y \in R \X E : y[1][2] = y[2][1]}},
                 E, n - 1)

\* the pairs <<a, b>> with a path of at least one edge of E from a to b
Reachable(E) == Closure(E, E, Cardinality(E))

HasCycle(E) == \E x \in Reachable(E) : x[1] = x[2]

OnCycle(E, a) == <<a, a>> \in Reachable(E)

DistinctEnds(E) == {e \in E : e[1] # e[2]}

RelationsOf(entity) == {entity.relations[j].val : j \in 1..Len(entity.relations)}

\* <<Y, X>>: an entity named Y declares a HasMany relation whose target is X
HasManyEdges(s) ==
    UNION {{<<s[i].name, r.target_entity>> : r \in {q \in RelationsOf(s[i]) : q.kind = "HasMany"}} :
            i \in 1..Len(s)}

\* the entity names of Migration.statements, in order
StatementNames(m) == [k \in 1..Len(m.statements) |-> m.statements[k][1]]

Precedes(names, a, b) ==
    /\ Position(names, a) > 0
    /\ Position(names, b) > 0
    /\ Position(names, a) < Position(names, b)

(***************************************************************************)
(* Creation order                                                          *)
(***************************************************************************)
\* C1, as stated: whenever generate_migration succeeds, every entity that
\* declares a HasMany relation to an entity of the schema has its statement
\* strictly before the statement of that target.
C1_OwnerBeforeEveryTarget ==
    \A k \in 1..Len(migrations) :
        migrations[k].err = NoError =>
            \A e \in HasManyEdges(schema) :
                HasEntity(schema, e[2]) =>
                    Precedes(StatementNames(migrations[k]), e[1], e[2])

\* C1, amended: whenever generate_migration succeeds, every entity that
\* declares a HasMany relation to another entity of the schema has its
\* statement strictly before the statement of that target; a HasMany relation
\* of an entity to itself orders nothing.
C1_OwnerBeforeOtherTarget ==
    \A k \in 1..Len(migrations) :
        migrations[k].err = NoError =>
            \A e \in DistinctEnds(HasManyEdges(schema)) :
                HasEntity(schema, e[2]) =>
                    Precedes(StatementNames(migrations[k]), e[1], e[2])

\* a migration succeeded on a schema whose HasMany owner is declared after
\* the entity it owns, so the order had to depart from the declaration order
C1_Witness ==
    \E k \in 1..Len(migrations) :
        /\ migrations[k].err = NoError
        /\ \E i, j \in 1..Len(schema) :
              /\ i < j
              /\ <<schema[j].name, schema[i].name>> \in HasManyEdges(schema)

ForwardEdges(s) ==
    UNION {{<<s[i].name, r.target_entity>> : r \in {q \in RelationsOf(s[i]) : q.kind # "BelongsTo"}} :
            i \in 1..Len(s)}

Nodes(E) == {e[1] : e \in E} \cup {e[2] : e \in E}

\* E is one simple directed cycle through all its nodes
IsSimpleCycle(E) ==
    /\ E # {}
    /\ \A a \in Nodes(E) : Cardinality({e \in E : e[1] = a}) = 1
    /\ \A a \in Nodes(E) : Cardinality({e \in E : e[2] = a}) = 1
    /\ \A a, b \in Nodes(E) : <<a, b>> \in Reachable(E)

\* the weakly connected components of E that hold a directed cycle
CyclicComponents(E) ==
    LET U == E \cup {<<e[2], e[1]>> : e \in E}
        Component(a) == {a} \cup {b \in Nodes(E) : <<a, b>> \in Reachable(U)}
    IN {Component(a) : a \in {b \in Nodes(E) : OnCycle(E, b)}}

ErrorsOfKind(errors, kind) == SelectSeq(errors, LAMBDA e : e.kind = kind)

\* path walks the edges of E and ends where it starts
IsClosedWalk(path, E) ==
    /\ Len(path) >= 2
    /\ path[1] = path[Len(path)]
    /\ \A i \in 1..(Len(path) - 1) : <<path[i], path[i + 1]>> \in E

\* C6: when the relations other than BelongsTo form exactly one simple
\* cycle, type_check reports exactly one CircularDependency; its path walks
\* the whole cycle once from one of its entities back to it, and that entity
\* is the first declared one of the cycle.
C6_SimpleCycleReportedOnce ==
    \A k \in 1..Len(checks) :
        LET E == ForwardEdges(schema)
            found == ErrorsOfKind(checks[k], "CircularDependency")
        IN IsSimpleCycle(E) =>
            /\ Len(found) = 1
            /\ IsClosedWalk(found[1].cycle, E)
            /\ Len(found[1].cycle) = Cardinality(Nodes(E)) + 1
            /\ Range(found[1].cycle) = Nodes(E)
            /\ \A i \in 1..Len(schema) :
                    schema[i].name \in Nodes(E) =>
                        EntityIndex(schema, found[1].cycle[1]) <= i

\* the three-entity cycle declared in order is reported from its first entity
C6_Witness ==
    \E k \in 1..Len(checks) :
        /\ IsSimpleCycle(ForwardEdges(schema))
        /\ Len(schema) = 3
        /\ ErrorsOfKind(checks[k], "CircularDependency")
              = <<CircularDependency(<<NamePool[1], NamePool[2], NamePool[3], NamePool[1]>>)>>

\* C7: type_check reports no more CircularDependency errors than the
\* relation graph (BelongsTo left out) has connected components with a cycle.
C7_OneErrorPerCyclicComponent ==
    \A k \in 1..Len(checks) :
        Len(ErrorsOfKind(checks[k], "CircularDependency"))
            <= Cardinality(CyclicComponents(ForwardEdges(schema)))

\* C8: the path of every CircularDependency error is a closed walk along
\* relations other than BelongsTo.
C8_EveryPathIsACycle ==
    \A k \in 1..Len(checks) :
        \A i \in 1..Len(checks[k]) :
            checks[k][i].kind = "CircularDependency" =>
                IsClosedWalk(checks[k][i].cycle, ForwardEdges(schema))

\* the schema without its BelongsTo relations
WithoutBelongsTo(s) ==
    [i \in 1..Len(s) |->
        [s[i] EXCEPT !.relations = SelectSeq(s[i].relations,
                                             LAMBDA en : en.val.kind # "BelongsTo")]]

\* C9: BelongsTo relations add no edge to the cycle search: the
\* CircularDependency errors are those of the schema with every BelongsTo
\* relation removed, and there is none when the other relations are acyclic.
C9_BelongsToIsNoEdge ==
    \A k \in 1..Len(checks) :
        /\ ErrorsOfKind(checks[k], "CircularDependency")
              = check_circular_dependencies(WithoutBelongsTo(schema))
        /\ ~HasCycle(ForwardEdges(schema)) =>
              ErrorsOfKind(checks[k], "CircularDependency") = <<>>

\* a HasMany relation mirrored by a BelongsTo relation was checked and no
\* cycle was reported
C9_Witness ==
    \E k \in 1..Len(checks) :
        /\ Len(schema) >= 2
        /\ HasManyTo(NamePool[2]) \in RelationsOf(schema[1])
        /\ BelongsToRel(NamePool[1]) \in RelationsOf(schema[2])
        /\ ErrorsOfKind(checks[k], "CircularDependency") = <<>>

(***************************************************************************)
(* Entity uniqueness                                                       *)
(***************************************************************************)
\* the 1-based positions of the entities named n
Occurrences(s, n) == {i \in 1..Len(s) : s[i].name = n}

Min(S) == CHOOSE x \in S : \A y \in S : x <= y

\* C10: a name that occurs k > 1 times gets exactly k-1 DuplicateEntity
\* errors, each with first = the position of the first occurrence and second
\* = the position of one later occurrence, every later occurrence once; a
\* name that occurs once gets none.
C10_DuplicateEntityPerRepeat ==
    \A k \in 1..Len(checks) :
        LET dups == ErrorsOfKind(checks[k], "DuplicateEntity")
        IN /\ \A i \in 1..Len(dups) : Cardinality(Occurrences(schema, dups[i].entity)) > 1
           /\ \A n \in EntityNameKeys(schema) :
                LET occ == Occurrences(schema, n)
                    mine == SelectSeq(dups, LAMBDA e : e.entity = n)
                IN IF Cardinality(occ) > 1
                   THEN /\ Len(mine) = Cardinality(occ) - 1
                        /\ \A i \in 1..Len(mine) : mine[i].first = Min(occ)
                        /\ {mine[i].second : i \in 1..Len(mine)} = occ \ {Min(occ)}
                   ELSE Len(mine) = 0

\* a schema whose entities all carry the same name was checked
C10_Witness ==
    \E k \in 1..Len(checks) :
        \E n \in EntityNameKeys(schema) :
            /\ Cardinality(Occurrences(schema, n)) = MaxEntities
            /\ Len(ErrorsOfKind(checks[k], "DuplicateEntity")) = MaxEntities - 1

(***************************************************************************)
(* The data-model invariants, stated on the schema alone                   *)
(***************************************************************************)
FieldsOf(entity) == {entity.fields[j].val : j \in 1..Len(entity.fields)}

\* the <<i, j>> naming the j-th field, or relation, of the i-th entity
FieldSlots(s) == {p \in (1..Len(s)) \X (1..2 * MaxRels + 2) : p[2] <= Len(s[p[1]].fields)}

RelationSlots(s) == {p \in (1..Len(s)) \X (1..2 * MaxRels + 2) : p[2] <= Len(s[p[1]].relations)}

FieldAt(s, p) == s[p[1]].fields[p[2]].val

RelationAt(s, p) == s[p[1]].relations[p[2]].val

HasFieldNamed(entity, n) == \E f \in FieldsOf(entity) : f.name = n

UnknownTarget(s, r) == ~\E i \in 1..Len(s) : s[i].name = r.target_entity

LacksForeignKey(r) == r.kind = "HasMany" /\ r.foreign_key = None

BadForeignKey(s, r) ==
    /\ r.foreign_key # None
    /\ \E i \in 1..Len(s) : s[i].name = r.target_entity
    /\ \A i \in 1..Len(s) :
          s[i].name = r.target_entity => ~HasFieldNamed(s[i], r.foreign_key)

\* invariants 1-9 of the data model
Valid(s) ==
    /\ \A i, j \in 1..Len(s) : s[i].name = s[j].name => i = j
    /\ \A i \in 1..Len(s) : \A a, b \in 1..Len(s[i].fields) :
          s[i].fields[a].val.name = s[i].fields[b].val.name => a = b
    /\ \A i \in 1..Len(s) : Cardinality({f \in FieldsOf(s[i]) : f.primary_key}) = 1
    /\ \A p \in FieldSlots(s) :
          /\ FieldAt(s, p).backend = "Vector" => FieldAt(s, p).field_type.tag = "Vector"
          /\ FieldAt(s, p).backend # None =>
                ~FieldAt(s, p).primary_key /\ ~FieldAt(s, p).unique
    /\ \A p \in RelationSlots(s) :
          /\ ~UnknownTarget(s, RelationAt(s, p))
          /\ ~BadForeignKey(s, RelationAt(s, p))
          /\ ~LacksForeignKey(RelationAt(s, p))
    /\ ~HasCycle(ForwardEdges(s))

\* the number of violations of the invariants: one per repeated entity, per
\* entity without exactly one primary key, per broken annotation rule of a
\* field, per broken rule of a relation, per cyclic component
Defects(s) ==
    Cardinality({i \in 1..Len(s) : \E j \in 1..(i - 1) : s[j].name = s[i].name})
    + Cardinality({i \in 1..Len(s) : Cardinality({f \in FieldsOf(s[i]) : f.primary_key}) # 1})
    + Cardinality({p \in FieldSlots(s) :
            FieldAt(s, p).backend = "Vector" /\ FieldAt(s, p).field_type.tag # "Vector"})
    + Cardinality({p \in FieldSlots(s) :
            FieldAt(s, p).backend # None /\ FieldAt(s, p).primary_key})
    + Cardinality({p \in FieldSlots(s) :
            FieldAt(s, p).backend # None /\ FieldAt(s, p).unique})
    + Cardinality({p \in RelationSlots(s) : UnknownTarget(s, RelationAt(s, p))})
    + Cardinality({p \in RelationSlots(s) : LacksForeignKey(RelationAt(s, p))})
    + Cardinality({p \in RelationSlots(s) : BadForeignKey(s, RelationAt(s, p))})
    + Cardinality(CyclicComponents(ForwardEdges(s)))

\* no two defects sit on the same relation
NonOverlapping(s) ==
    \A p \in RelationSlots(s) :
        ~(UnknownTarget(s, RelationAt(s, p)) /\ LacksForeignKey(RelationAt(s, p)))

\* C3: on a schema whose defects do not overlap, type_check returns exactly
\* one error per defect.
C3_OneErrorPerDefect ==
    \A k \in 1..Len(checks) :
        NonOverlapping(schema) => Len(checks[k]) = Defects(schema)

\* no pass hides a defect: there are at least as many errors as defects, and
\* exactly as many whenever the cycle pass reports each cyclic component once
C3_NoDefectHidden ==
    \A k \in 1..Len(checks) :
        NonOverlapping(schema) =>
            /\ Len(checks[k]) >= Defects(schema)
            /\ C7_OneErrorPerCyclicComponent => Len(checks[k]) = Defects(schema)

\* C4: every type_check of a schema that satisfies the nine invariants
\* returns no error, the second call as the first, and leaves the schema as
\* it was.
C4_ValidSchemaChecksClean ==
    /\ [](Valid(schema) => \A k \in 1..Len(checks) : checks[k] = <<>>)
    /\ [][checks' # checks => schema' = schema]_vars

\* a valid schema with a mirrored HasMany relation and a @vector field was
\* checked twice
C4_Witness ==
    /\ Valid(schema)
    /\ Len(checks) = 2
    /\ \E p \in RelationSlots(schema) : RelationAt(schema, p).kind = "HasMany"
    /\ \E p \in RelationSlots(schema) : RelationAt(schema, p).kind = "BelongsTo"
    /\ \E p \in FieldSlots(schema) : FieldAt(schema, p).backend = "Vector"

(***************************************************************************)
(* Repeated generation                                                     *)
(***************************************************************************)
\* C5: every generate_migration of the same schema returns the same output,
\* byte for byte.
C5_SameSchemaSameScript ==
    \A i, j \in 1..Len(migrations) : migrations[i] = migrations[j]

(***************************************************************************)
(* Field uniqueness                                                        *)
(***************************************************************************)
\* the number of Field values of the entity that carry the name n
FieldCount(entity, n) ==
    Cardinality({j \in 1..Len(entity.fields) : entity.fields[j].val.name = n})

FieldNames(entity) == {entity.fields[j].val.name : j \in 1..Len(entity.fields)}

\* C11: for every entity and every field name carried by k > 1 of its Field
\* values, type_check emits k - 1 DuplicateField errors for that entity and
\* that name, as the entity pass does for repeated entity names.
C11_DuplicateFieldPerRepeat ==
    \A c \in 1..Len(checks) : \A i \in 1..Len(schema) :
        \A n \in FieldNames(schema[i]) :
            FieldCount(schema[i], n) > 1 =>
                Len(SelectSeq(checks[c],
                        LAMBDA e : e = DuplicateField(schema[i].name, n)))
                    = FieldCount(schema[i], n) - 1

\* what the code does: one DuplicateField per repeated name, whatever k
C11_OneErrorPerRepeatedName ==
    \A c \in 1..Len(checks) : \A i \in 1..Len(schema) :
        \A n \in FieldNames(schema[i]) :
            Len(SelectSeq(checks[c], LAMBDA e : e = DuplicateField(schema[i].name, n)))
                = IF FieldCount(schema[i], n) > 1 THEN 1 ELSE 0
(***************************************************************************)
(* Relation validity                                                       *)
(***************************************************************************)
RelationErrorKinds == {"UnknownRelationTarget", "MissingForeignKey", "InvalidForeignKey"}

\* the errors of the relation pass about relation r of entity e
ErrorsAbout(errors, e, r) ==
    SelectSeq(errors, LAMBDA x : /\ x.kind \in RelationErrorKinds
                                 /\ x.entity = e.name /\ x.relation = r.name)

\* the single error the first matching rule gives relation r of entity e
FirstMatch(s, e, r) ==
    IF UnknownTarget(s, r)
    THEN <<UnknownRelationTarget(e.name, r.name, r.target_entity)>>
    ELSE IF LacksForeignKey(r)
    THEN <<MissingForeignKey(e.name, r.name)>>
    ELSE IF BadForeignKey(s, r)
    THEN <<InvalidForeignKey(e.name, r.name, r.target_entity, r.foreign_key)>>
    ELSE <<>>

PrimaryFields(entity) == {j \in 1..Len(entity.fields) : entity.fields[j].val.primary_key}

PrimaryNames(entity) == {entity.fields[j].val.name : j \in PrimaryFields(entity)}

ErrorsOfEntity(errors, kind, e) ==
    SelectSeq(errors, LAMBDA x : x.kind = kind /\ x.entity = e.name)

AnnotationErrorKinds == {"InvalidVectorAnnotation", "AnnotationOnConstrainedField"}

\* the annotation errors about field f of entity e
AnnotationErrorsAbout(errors, e, f) ==
    SelectSeq(errors, LAMBDA x : /\ x.kind \in AnnotationErrorKinds
                                 /\ x.entity = e.name /\ x.field = f.name)

ConstraintErrors(errors, constraint) ==
    SelectSeq(errors, LAMBDA x : /\ x.kind = "AnnotationOnConstrainedField"
                                 /\ x.constraint = constraint)

Count(b) == IF b THEN 1 ELSE 0

\* C14: an unannotated field gets no annotation error; an annotated field
\* gets one InvalidVectorAnnotation iff it is @vector on a type other than
\* vector(N), one AnnotationOnConstrainedField "primary" iff it is a primary
\* key, and a separate one "unique" iff it is unique; nothing else.
C14_AnnotationErrorsPerField ==
    \A c \in 1..Len(checks) : \A p \in FieldSlots(schema) :
        LET f == FieldAt(schema, p)
            about == AnnotationErrorsAbout(checks[c], schema[p[1]], f)
            annotated == f.backend # None
        IN /\ Len(ErrorsOfKind(about, "InvalidVectorAnnotation"))
                = Count(annotated /\ f.backend = "Vector" /\ f.field_type.tag # "Vector")
           /\ Len(ConstraintErrors(about, "primary")) = Count(annotated /\ f.primary_key)
           /\ Len(ConstraintErrors(about, "unique")) = Count(annotated /\ f.unique)
           /\ Len(about) = Len(ErrorsOfKind(about, "InvalidVectorAnnotation"))
                           + Len(ConstraintErrors(about, "primary"))
                           + Len(ConstraintErrors(about, "unique"))

\* a plain string field under @vector got its single error, next to a field
\* that is primary and unique and got both constraint errors
C14_Witness ==
    \E c \in 1..Len(checks) : \E p, q \in FieldSlots(schema) :
        /\ FieldAt(schema, p) = SummaryField
        /\ AnnotationErrorsAbout(checks[c], schema[p[1]], SummaryField)
              = <<InvalidVectorAnnotation(schema[p[1]].name, "summary", "String")>>
        /\ FieldAt(schema, q) = CodeField
        /\ Len(AnnotationErrorsAbout(checks[c], schema[q[1]], CodeField)) = 3
(***************************************************************************)
(* The text of the statements                                              *)
(***************************************************************************)
StartsWith(text, part) == Len(part) <= Len(text) /\ SubSeq(text, 1, Len(part)) = part

EndsWith(text, part) ==
    Len(part) <= Len(text) /\ SubSeq(text, Len(text) - Len(part) + 1, Len(text)) = part

After(text, part) == SubSeq(text, Len(part) + 1, Len(text))

Includes(text, part) ==
    \E i \in 1..(Len(text) - Len(part) + 1) : SubSeq(text, i, i + Len(part) - 1) = part

RECURSIVE Separated(_, _)
Separated(parts, sep) ==
    IF parts = <<>> THEN ""
    ELSE IF Len(parts) = 1 THEN parts[1]
    ELSE parts[1] \o sep \o Separated(Tail(parts), sep)

\* the mapping table of the target dialect
RECURSIVE MappedType(_)
MappedType(ty) ==
    CASE ty.tag = "UUID" -> "UUID"
      [] ty.tag = "String" -> "VARCHAR"
      [] ty.tag = "Int" -> "INTEGER"
      [] ty.tag = "Decimal" -> "NUMERIC"
      [] ty.tag = "Bool" -> "BOOLEAN"
      [] ty.tag = "Timestamp" -> "TIMESTAMP"
      [] ty.tag = "Float" -> "DOUBLE PRECISION"
      [] ty.tag = "Vector" -> "VECTOR(" \o ToString(ty.dim) \o ")"
      [] ty.tag = "Array" -> MappedType(ty.elem[1]) \o "[]"

MappedDefault(d) ==
    CASE d.tag = "Now" -> "NOW()"
      [] d.tag = "UUIDv4" -> "gen_random_uuid()"
      [] d.tag = "Literal" -> "'" \o d.text \o "'"

\* <field> <mapped-type>[ PRIMARY KEY][ NOT NULL][ UNIQUE][ DEFAULT <default>]
ColumnText(f) ==
    f.name \o " " \o MappedType(f.field_type)
    \o (IF f.primary_key THEN " PRIMARY KEY" ELSE "")
    \o (IF ~f.nullable /\ ~f.primary_key THEN " NOT NULL" ELSE "")
    \o (IF f.unique THEN " UNIQUE" ELSE "")
    \o (IF f.default # NoDefault THEN " DEFAULT " \o MappedDefault(f.default) ELSE "")

Indent == "    "

\* the head of a statement and its columns, one indented line per column
TableHead(name, cols) ==
    "CREATE TABLE " \o entity_to_table(name) \o " (\n"
    \o Separated([j \in 1..Len(cols) |-> Indent \o cols[j]], ",\n")

\* what follows the columns: the end of the statement, or a constraint
ColumnsEnd(cols, rest) ==
    \/ rest = "\n);"
    \/ StartsWith(rest, (IF cols = <<>> THEN "" ELSE ",\n") \o Indent \o "FOREIGN KEY (")

Succeeded(m) == m.err = NoError

\* C15: in every statement each field of the entity is one column
\* '<field> <type>[ PRIMARY KEY][ NOT NULL][ UNIQUE][ DEFAULT <default>]',
\* keywords in that order, NOT NULL exactly for the fields that are neither
\* nullable nor the primary key; nothing but constraints follows the columns.
C15_OneColumnPerField ==
    /\ ColumnText(AgeField) = "age INTEGER"
    /\ ColumnText(EmailField) = "email VARCHAR NOT NULL UNIQUE"
    /\ ColumnText(IdField) = "id UUID PRIMARY KEY"
    /\ \A c \in 1..Len(migrations) : \A k \in 1..Len(migrations[c].statements) :
          LET st == migrations[c].statements[k]
              fs == Values(get_entity(schema, st[1]).fields)
          IN \E cols \in Orderings([j \in 1..Len(fs) |-> ColumnText(fs[j])]) :
                /\ StartsWith(st[2], TableHead(st[1], cols))
                /\ ColumnsEnd(cols, After(st[2], TableHead(st[1], cols)))

\* a table with a nullable column and a key that is unique and has a
\* default has been generated
C15_Witness ==
    \E c \in 1..Len(migrations) : \E k, l \in 1..Len(migrations[c].statements) :
        /\ Includes(migrations[c].statements[k][2], "\n    age INTEGER")
        /\ Includes(migrations[c].statements[l][2],
                    "    key UUID PRIMARY KEY UNIQUE DEFAULT gen_random_uuid()")
(***************************************************************************)
(* Foreign-key constraints                                                 *)
(***************************************************************************)
ForeignKeyText(fk, parent) ==
    "FOREIGN KEY (" \o fk \o ") REFERENCES " \o entity_to_table(parent) \o "(id)"

\* the relations that give entity x a constraint: the has_many relations of
\* the other entities that target x
OwningSlots(s, x) ==
    {p \in RelationSlots(s) : /\ s[p[1]].name # x
                              /\ RelationAt(s, p).kind = "HasMany"
                              /\ RelationAt(s, p).target_entity = x}

\* a set of slots in every order
SlotOrders(S) == {q \in [1..Cardinality(S) -> S] : \A a, b \in 1..Cardinality(S) : q[a] = q[b] => a = b}

\* a whole statement: columns, then constraints, one indented line each
StatementText(name, cols, cons) ==
    "CREATE TABLE " \o entity_to_table(name) \o " (\n"
    \o Separated([j \in 1..Len(cols \o cons) |-> Indent \o (cols \o cons)[j]], ",\n")
    \o "\n);"

ColumnTexts(entity) == [j \in 1..Len(entity.fields) |-> ColumnText(entity.fields[j].val)]

\* C16: the statement of entity X holds one 'FOREIGN KEY (<fk>) REFERENCES
\* <parent-table>(id)' for every other entity Y whose has_many relation
\* targets X, with Y's foreign key and Y's table, and no other constraint:
\* none from a relation X declares itself, none from another kind.
C16_ForeignKeysOfOtherOwners ==
    \A c \in 1..Len(migrations) : \A k \in 1..Len(migrations[c].statements) :
        LET st == migrations[c].statements[k]
            x == get_entity(schema, st[1])
        IN \E cols \in Orderings(ColumnTexts(x)) :
           \E q \in SlotOrders(OwningSlots(schema, st[1])) :
              st[2] = StatementText(st[1], cols,
                        [j \in 1..Len(q) |->
                            ForeignKeyText(RelationAt(schema, q[j]).foreign_key,
                                           schema[q[j][1]].name)])

\* the same with the entity's own has_many relations counted in: what the
\* generator writes
C16_ForeignKeysOfAllOwners ==
    \A c \in 1..Len(migrations) : \A k \in 1..Len(migrations[c].statements) :
        LET st == migrations[c].statements[k]
            x == get_entity(schema, st[1])
            owning == {p \in RelationSlots(schema) :
                          /\ RelationAt(schema, p).kind = "HasMany"
                          /\ RelationAt(schema, p).target_entity = st[1]}
        IN \E cols \in Orderings(ColumnTexts(x)) : \E q \in SlotOrders(owning) :
              st[2] = StatementText(st[1], cols,
                        [j \in 1..Len(q) |->
                            ForeignKeyText(RelationAt(schema, q[j]).foreign_key,
                                           schema[q[j][1]].name)])
(***************************************************************************)
(* The script                                                              *)
(***************************************************************************)
\* the constraint lines any has_many relation of the schema can give x
ConstraintTexts(s, x) ==
    {ForeignKeyText(RelationAt(s, p).foreign_key, s[p[1]].name) :
        p \in {q \in RelationSlots(s) : /\ RelationAt(s, q).kind = "HasMany"
                                        /\ RelationAt(s, q).target_entity = x
                                        /\ RelationAt(s, q).foreign_key # None}}

\* the sequences of at most n of these lines
ConstraintLists(S, n) == UNION {[1..m -> S] : m \in 0..n}

\* one statement 'CREATE TABLE <table> (...);' of entity x: its columns,
\* then constraints only
IsTableStatement(s, name, text) ==
    \E cols \in Orderings(ColumnTexts(get_entity(s, name))) :
    \E cons \in ConstraintLists(ConstraintTexts(s, name), Cardinality(RelationSlots(s))) :
        text = StatementText(name, cols, cons)

ScriptOf(m) == Separated([k \in 1..Len(m.statements) |-> m.statements[k][2]], "\n\n")

\* C17: on success the script is the statements in creation order with one
\* blank line between them, every statement is one 'CREATE TABLE <table>
\* (...);' with all columns before all constraints, and there are as many
\* statements as the schema has entities.
C17_ScriptOfAllEntities ==
    \A c \in 1..Len(migrations) :
        Succeeded(migrations[c]) =>
            /\ migrations[c].sql = ScriptOf(migrations[c])
            /\ \A k \in 1..Len(migrations[c].statements) :
                  IsTableStatement(schema, migrations[c].statements[k][1],
                                   migrations[c].statements[k][2])
            /\ Len(migrations[c].statements) = Len(schema)

\* C17, amended: ... and there are as many statements as the schema has
\* distinct entity names (as many as entities when no name repeats).
C17_ScriptOfAllNames ==
    \A c \in 1..Len(migrations) :
        Succeeded(migrations[c]) =>
            /\ migrations[c].sql = ScriptOf(migrations[c])
            /\ \A k \in 1..Len(migrations[c].statements) :
                  IsTableStatement(schema, migrations[c].statements[k][1],
                                   migrations[c].statements[k][2])
            /\ Len(migrations[c].statements) = Cardinality(EntityNameKeys(schema))

\* a script of two statements, the second with a constraint, has been
\* generated from a schema of three entities that repeats a name
C17_Witness ==
    \E c \in 1..Len(migrations) :
        /\ Succeeded(migrations[c])
        /\ Len(schema) = 3
        /\ Len(migrations[c].statements) = 2
        /\ Includes(migrations[c].sql, ");\n\nCREATE TABLE ")
        /\ Includes(migrations[c].statements[2][2], ",\n    FOREIGN KEY (")
(***************************************************************************)
(* Type and default mapping                                                *)
(***************************************************************************)
MaxDepth == 2

VectorSizes == {1, 3, 384, 1536}

\* the types without an element type
BaseTypes == {Scalar(t) : t \in ScalarTypes} \cup {Vector(n) : n \in VectorSizes}

\* the types nested at most n arrays deep
RECURSIVE TypesUpTo(_)
TypesUpTo(n) ==
    IF n = 0 THEN BaseTypes
    ELSE TypesUpTo(n - 1) \cup {Array(ty) : ty \in TypesUpTo(n - 1)}

\* the text of the table for a type without element type
TableText(ty) ==
    CASE ty = Scalar("UUID") -> "UUID"
      [] ty = Scalar("String") -> "VARCHAR"
      [] ty = Scalar("Int") -> "INTEGER"
      [] ty = Scalar("Decimal") -> "NUMERIC"
      [] ty = Scalar("Bool") -> "BOOLEAN"
      [] ty = Scalar("Timestamp") -> "TIMESTAMP"
      [] ty = Scalar("Float") -> "DOUBLE PRECISION"
      [] ty.tag = "Vector" -> "VECTOR(" \o ToString(ty.dim) \o ")"

RECURSIVE ElementType(_)
ElementType(ty) == IF ty.tag = "Array" THEN ElementType(ty.elem[1]) ELSE ty

RECURSIVE Depth(_)
Depth(ty) == IF ty.tag = "Array" THEN 1 + Depth(ty.elem[1]) ELSE 0

RECURSIVE Brackets(_)
Brackets(n) == IF n = 0 THEN "" ELSE "[]" \o Brackets(n - 1)

TypesOf(s) == {FieldAt(s, p).field_type : p \in FieldSlots(s)}

\* C18: to_postgres_type maps the seven scalars and vector(N) as the table
\* says, maps Array(T) to the text of T followed by '[]', and so maps a type
\* nested n arrays deep to the text of its element type followed by n '[]';
\* it has a value for every type, those of the generated columns included.
C18_TypeMapComposes ==
    /\ \A ty \in BaseTypes : to_postgres_type(ty) = TableText(ty)
    /\ \A ty \in TypesUpTo(MaxDepth) :
          /\ to_postgres_type(Array(ty)) = to_postgres_type(ty) \o "[]"
          /\ to_postgres_type(ty) = TableText(ElementType(ty)) \o Brackets(Depth(ty))
    /\ \A c \in 1..Len(migrations) : \A k \in 1..Len(migrations[c].statements) :
          \A j \in 1..Len(get_entity(schema, migrations[c].statements[k][1]).fields) :
              LET f == get_entity(schema, migrations[c].statements[k][1]).fields[j].val
              IN Includes(migrations[c].statements[k][2],
                          Indent \o f.name \o " " \o TableText(ElementType(f.field_type))
                          \o Brackets(Depth(f.field_type)))

\* columns of an array of arrays and of a vector have been generated
C18_Witness ==
    \E c \in 1..Len(migrations) : \E k \in 1..Len(migrations[c].statements) :
        /\ Includes(migrations[c].statements[k][2], "    tags VARCHAR[][] NOT NULL")
        /\ Includes(migrations[c].statements[k][2], "    embedding VECTOR(3) NOT NULL")
\* texts of literal defaults: empty, plain, and with single quotes inside
TextPool == {"", "hello", "true", "it's", "'", "a''b", "say 'hi' twice"}

DefaultsOf(s) == {FieldAt(s, p).default : p \in FieldSlots(s)} \ {NoDefault}

\* C19: Now maps to 'NOW()', UUIDv4 to 'gen_random_uuid()', and Literal(s)
\* to s between two single quotes with s itself unchanged, single quotes
\* inside s included; so in the DEFAULT clauses of the generated columns.
C19_DefaultsVerbatim ==
    /\ to_postgres_default(Now) = "NOW()"
    /\ to_postgres_default(UUIDv4) = "gen_random_uuid()"
    /\ \A s \in TextPool \cup {d.text : d \in DefaultsOf(schema)} :
          LET r == to_postgres_default(Literal(s))
          IN /\ Len(r) = Len(s) + 2
             /\ SubSeq(r, 1, 1) = "'"
             /\ SubSeq(r, 2, Len(s) + 1) = s
             /\ SubSeq(r, Len(r), Len(r)) = "'"
    /\ \A c \in 1..Len(migrations) : \A k \in 1..Len(migrations[c].statements) :
          \A j \in 1..Len(get_entity(schema, migrations[c].statements[k][1]).fields) :
              LET f == get_entity(schema, migrations[c].statements[k][1]).fields[j].val
                  line == Indent \o f.name \o " "
              IN f.default # NoDefault =>
                    \E i \in 1..Len(migrations[c].statements[k][2]) :
                        LET rest == SubSeq(migrations[c].statements[k][2], i,
                                           Len(migrations[c].statements[k][2]))
                        IN /\ StartsWith(rest, line)
                           /\ \/ EndsWith(rest, " DEFAULT " \o MappedDefault(f.default) \o "\n);")
                              \/ Includes(rest, " DEFAULT " \o MappedDefault(f.default) \o ",\n")

\* a column whose literal default holds a single quote, and a column with
\* the NOW() default, have been generated
C19_Witness ==
    \E c \in 1..Len(migrations) : \E k \in 1..Len(migrations[c].statements) :
        /\ Includes(migrations[c].statements[k][2], "    status VARCHAR NOT NULL DEFAULT 'it's'")
        /\ Includes(migrations[c].statements[k][2],
                    "    created_at TIMESTAMP NOT NULL DEFAULT NOW()")

\* the schema with every backend annotation taken off
WithoutAnnotations(s) ==
    [i \in 1..Len(s) |->
        [s[i] EXCEPT !.fields =
            [j \in 1..Len(s[i].fields) |->
                [s[i].fields[j] EXCEPT !.val.backend = None]]]]

Annotated(s) == \E p \in FieldSlots(s) : FieldAt(s, p).backend # None

\* C20: backend annotations leave the generated DDL alone: a schema and the
\* same schema without its annotations give the same creation order, the
\* same statements and the same script (or the same error), and an
\* annotated non-nullable field is a regular column: 'views INTEGER NOT NULL'.
C20_AnnotationsNotInDDL ==
    \A c \in 1..Len(migrations) :
        /\ migrations[c] = generate_migration(WithoutAnnotations(schema))
        /\ \A k \in 1..Len(migrations[c].statements) :
              ViewsField \in FieldsOf(get_entity(schema, migrations[c].statements[k][1]))
                  => Includes(migrations[c].statements[k][2], "    views INTEGER NOT NULL")

\* a schema with the annotated views field and an annotated vector has been
\* migrated
C20_Witness ==
    \E c \in 1..Len(migrations) : \E p, q \in FieldSlots(schema) :
        /\ Succeeded(migrations[c])
        /\ FieldAt(schema, p) = ViewsField
        /\ FieldAt(schema, q) = EmbeddingField
        /\ Includes(migrations[c].sql, "    views INTEGER NOT NULL")
(***************************************************************************)
(* The generator against the type checker                                  *)
(***************************************************************************)
HasOneEdges(s) ==
    UNION {{<<s[i].name, r.target_entity>> : r \in {q \in RelationsOf(s[i]) : q.kind = "HasOne"}} :
            i \in 1..Len(s)}

DeclaredNames(s) == [i \in 1..Len(s) |-> s[i].name]

C25_CheckedSchemaIsGenerated ==
    /\ \A c \in 1..Len(checks) : \A k \in 1..Len(migrations) :
            checks[c] = <<>> =>
                /\ Succeeded(migrations[k])
                /\ migrations[k].err.kind \notin {"CircularDependency", "UnknownEntity"}
    /\ \A c \in 1..Len(checks) :
            HasCycle(HasManyEdges(schema)) =>
                ErrorsOfKind(checks[c], "CircularDependency") # <<>>

\* three entities chained by has_many relations, accepted and generated
C25_Witness ==
    /\ Len(schema) = MaxEntities
    /\ Cardinality(HasManyEdges(schema)) >= 2
    /\ \E c \in 1..Len(checks) : checks[c] = <<>>
    /\ \E k \in 1..Len(migrations) :
            /\ Succeeded(migrations[k])
            /\ Len(migrations[k].statements) = Len(schema)

\* s without the relations whose target is no entity of s
WithoutDangling(s) ==
    [i \in 1..Len(s) |->
        [s[i] EXCEPT !.relations = SelectSeq(s[i].relations,
                                             LAMBDA en : HasEntity(s, en.val.target_entity))]]

DanglingTargets(s) ==
    {e[2] : e \in {x \in HasManyEdges(s) : ~HasEntity(s, x[2])}}

\* C26: generate_migration never returns UnknownEntity and every name of a
\* statement is an entity of the schema; a has_many relation whose target is
\* not declared is ignored: the result is that of the schema without such
\* relations, and no statement is named after the missing target.
C26_DanglingTargetIgnored ==
    \A k \in 1..Len(migrations) :
        LET m == migrations[k]
        IN /\ m.err.kind # "UnknownEntity"
           /\ \A j \in 1..Len(m.statements) : HasEntity(schema, m.statements[j][1])
           /\ \A t \in DanglingTargets(schema) : ~Contains(StatementNames(m), t)
           /\ m = generate_migration(WithoutDangling(schema))

\* a generated schema of three entities with a has_many relation to an
\* entity that is not declared
C26_Witness ==
    /\ Len(schema) = MaxEntities
    /\ Ghost \in DanglingTargets(schema)
    /\ \E k \in 1..Len(migrations) :
            /\ Succeeded(migrations[k])
            /\ Len(migrations[k].statements) = Len(schema)

\* the entities that declare a has_many relation to themselves
SelfOwners(s) == {e[1] : e \in {x \in HasManyEdges(s) : x[1] = x[2]}}

\* C27: a has_many relation of an entity to itself is no cycle for the
\* generator: a schema whose has_many relations form no cycle but such
\* self-references is generated, with one statement for the entity that
\* refers to itself.
C27_SelfReferenceIsGenerated ==
    \A k \in 1..Len(migrations) :
        (/\ SelfOwners(schema) # {}
         /\ ~HasCycle(DistinctEnds(HasManyEdges(schema)))) =>
            /\ Succeeded(migrations[k])
            /\ \A x \in SelfOwners(schema) :
                    Cardinality({j \in 1..Len(migrations[k].statements) :
                                    migrations[k].statements[j][1] = x}) = 1

\* a generated schema in which two entities refer to themselves and one of
\* them also owns the other
C27_Witness ==
    /\ Cardinality(SelfOwners(schema)) >= 2
    /\ DistinctEnds(HasManyEdges(schema)) # {}
    /\ \E k \in 1..Len(migrations) :
            /\ Succeeded(migrations[k])
            /\ Len(migrations[k].statements) = Len(schema)

C28_LoneSelfReferenceReported ==
    \A k \in 1..Len(checks) : \A i \in 1..Len(schema) :
        LET E == ForwardEdges(schema)
            X == schema[i].name
        IN (/\ <<X, X>> \in E
            /\ \A y \in Nodes(E) \ {X} : ~OnCycle(E, y)) =>
                \E j \in 1..Len(checks[k]) :
                    checks[k][j] = CircularDependency(<<X, X>>)

(***************************************************************************)
(* Statements and entity names                                             *)
(***************************************************************************)
\* C29: on success every distinct entity name of the schema is the name of
\* exactly one statement and no statement has another name; of the entities
\* that share a name, the first declared one gives the statement its columns.
C29_OneStatementPerName ==
    \A c \in 1..Len(migrations) :
        LET st == migrations[c].statements
        IN Succeeded(migrations[c]) =>
            /\ \A n \in EntityNameKeys(schema) :
                    Cardinality({k \in 1..Len(st) : st[k][1] = n}) = 1
            /\ \A k \in 1..Len(st) : st[k][1] \in EntityNameKeys(schema)
            /\ \A k \in 1..Len(st) :
                    LET first == schema[Min(Occurrences(schema, st[k][1]))]
                    IN \E cols \in Orderings(ColumnTexts(first)) :
                       \E cons \in ConstraintLists(ConstraintTexts(schema, st[k][1]),
                                                   Cardinality(RelationSlots(schema))) :
                            st[k][2] = StatementText(st[k][1], cols, cons)

\* three entities under two names, the two namesakes with different fields:
\* two statements, the first entity's field in the statement of the shared name
C29_Witness ==
    /\ Len(schema) = MaxEntities
    /\ \E n \in EntityNameKeys(schema) :
            /\ Cardinality(Occurrences(schema, n)) = 2
            /\ \E i, j \in Occurrences(schema, n) : schema[i].fields # schema[j].fields
    /\ \E c \in 1..Len(migrations) :
            /\ Succeeded(migrations[c])
            /\ Len(migrations[c].statements) = 2

(***************************************************************************)
(* Iteration order of the maps                                             *)
(***************************************************************************)
\* the schemas that differ from s only in the iteration order of the fields
\* and relations of its entities
RECURSIVE Reorderings(_)
Reorderings(s) ==
    IF s = <<>> THEN {<<>>}
    ELSE {<<e>> \o rest :
            e \in {Entity(s[1].name, fs, rs) : fs \in Orderings(s[1].fields),
                                               rs \in Orderings(s[1].relations)},
            rest \in Reorderings(Tail(s))}

\* C30: for a fixed schema the sequence of entity names of the statements,
\* or the entity named by the CircularDependency error, is the same for
\* every iteration order of the fields and relations of each entity.
C30_OrderOfStatementsFixed ==
    \A c \in 1..Len(migrations) : \A r \in Reorderings(schema) :
        LET m == generate_migration(r)
        IN /\ m.err = migrations[c].err
           /\ StatementNames(m) = StatementNames(migrations[c])

\* a refused schema with an entity whose two has_many relations can iterate
\* in two orders
C30_Witness ==
    /\ Len(schema) = MaxEntities
    /\ \E i \in 1..Len(schema) : Len(schema[i].relations) = 2
    /\ Cardinality(DistinctEnds(HasManyEdges(schema))) >= 3
    /\ \E c \in 1..Len(migrations) : migrations[c].err.kind = "CircularDependency"

\* a generated schema with such an entity
C30_WitnessGenerated ==
    /\ Len(schema) = MaxEntities
    /\ \E i \in 1..Len(schema) : Len(schema[i].relations) = 2
    /\ Cardinality(DistinctEnds(HasManyEdges(schema))) >= 3
    /\ \E c \in 1..Len(migrations) :
            Succeeded(migrations[c]) /\ Len(migrations[c].statements) = Len(schema)

(***************************************************************************)
(* The diagnostics of the parser                                           *)
(***************************************************************************)
TypeOK_Diagnostic == diagnostic.op \in {None, "offset_to_position", "extract_snippet",
                                        "add_suggestions", "enhance_parse_error"}

\* the length of text in bytes: one per character, one more per wide one
Bytes(text) == Len(text) + Cardinality({i \in 1..Len(text) : SubSeq(text, i, i) = Wide})

LineBreaks(text) == Cardinality({i \in 1..Len(text) : SubSeq(text, i, i) = "\n"})

\* the characters of text after its last line break
AfterLastBreak(text) ==
    Cardinality({i \in 1..Len(text) :
                    \A j \in i..Len(text) : SubSeq(text, j, j) # "\n"})

\* the 1-based line and column of the position that follows the text before
PositionAfter(before) == <<1 + LineBreaks(before), 1 + AfterLastBreak(before)>>

\* C22: for every source text and every byte offset into it, at the start
\* of a character or at the end of the text, offset_to_position returns
\* line = 1 + the line breaks before the offset and column = 1 + the
\* characters between the last such line break (or the start) and the
\* offset, also when characters of several bytes come before the offset.
C22_PositionOfByteOffset ==
    diagnostic.op = "offset_to_position" =>
        \A n \in 0..Len(diagnostic.source) :
            Bytes(SubSeq(diagnostic.source, 1, n)) = diagnostic.offset =>
                diagnostic.result = PositionAfter(SubSeq(diagnostic.source, 1, n))

\* what the code computes: the position after the first offset characters
C22_PositionOfCharOffset ==
    diagnostic.op = "offset_to_position" =>
        \E n \in 0..Len(diagnostic.source) :
            /\ n = diagnostic.offset \/ (n = Len(diagnostic.source) /\ n < diagnostic.offset)
            /\ diagnostic.result = PositionAfter(SubSeq(diagnostic.source, 1, n))

\* the claim on the texts that hold one-byte characters only
C22_PositionInAsciiText ==
    (diagnostic.op = "offset_to_position" /\ Bytes(diagnostic.source) = Len(diagnostic.source)) =>
        diagnostic.result = PositionAfter(SubSeq(diagnostic.source, 1, diagnostic.offset))

Keywords == {"entity", "primary", "unique", "nullable"}

KeywordHint(k) == "Did you mean '" \o k \o "'?"

KeywordHints == {KeywordHint(k) : k \in Keywords}

\* the known misspellings, looked for inside the lower-cased token
Misspellings(k) ==
    CASE k = "entity" -> {"entiy", "enity", "entit"}
      [] k = "primary" -> {"primry", "pirmary", "primari"}
      [] k = "unique" -> {"uniqu"}
      [] k = "nullable" -> {"nullabe", "nulable"}

\* the token as it is compared: without the lexer's wrapping, in lower case
Word(token) == token_lower(token)

\* the token holds a known misspelling of keyword k
HasMisspelling(token, k) ==
    /\ token # None
    /\ \E f \in Misspellings(k) : Includes(Word(token), f)
    /\ k = "unique" => ~Includes(Word(token), "unique")

\* the token is a known misspelling of keyword k and no keyword itself
Misspells(token, k) == HasMisspelling(token, k) /\ Word(token) \notin Keywords

MessageHints ==
    {"Fields must have a type after the colon.\nExample: name: string",
     "Entity definitions must have an opening brace.\nExample: entity User {",
     "Missing closing brace. Check that all entities are properly closed.",
     "The file ended unexpectedly. You may be missing a closing brace }"}

\* the hint of the first message pattern found in the message, if any
PatternHint(message) ==
    CASE Includes(message, "expected one of") /\ Includes(message, "\":\"") ->
            "Fields must have a type after the colon.\nExample: name: string"
      [] Includes(message, "expected one of") /\ ~Includes(message, "\":\"")
         /\ Includes(message, "\"{\"") ->
            "Entity definitions must have an opening brace.\nExample: entity User {"
      [] Includes(message, "expected one of") /\ ~Includes(message, "\":\"")
         /\ ~Includes(message, "\"{\"") /\ Includes(message, "\"}\"") ->
            "Missing closing brace. Check that all entities are properly closed."
      [] ~(Includes(message, "expected one of")
           /\ (Includes(message, "\":\"") \/ Includes(message, "\"{\"")
               \/ Includes(message, "\"}\"")))
         /\ Includes(message, "Unexpected end of file") ->
            "The file ended unexpectedly. You may be missing a closing brace }"
      [] OTHER -> None

\* the statement of C23, for a given reading Matches(token, k) of 'the token
\* is a known misspelling of k'
SuggestionRule(Matches(_, _)) ==
    /\ diagnostic.op = "add_suggestions" =>
        LET d == diagnostic.detail
            r == diagnostic.result
        IN /\ r.suggestion \in {None, d.suggestion} \cup KeywordHints \cup MessageHints
           /\ \A k \in Keywords : r.suggestion = KeywordHint(k) => Matches(d.token, k)
           /\ (\E k \in Keywords : Matches(d.token, k)) => r.suggestion \in KeywordHints
           /\ r.suggestion \in MessageHints =>
                /\ \A k \in Keywords : ~Matches(d.token, k)
                /\ r.suggestion = PatternHint(d.message)
           /\ r.message = d.message /\ r.token = d.token
           /\ r.line = d.line /\ r.column = d.column /\ r.snippet = d.snippet
    /\ (diagnostic.op = "enhance_parse_error" /\ ~diagnostic.result.panic) =>
        LET e == diagnostic.err
            v == diagnostic.result.value
        IN /\ v.kind = e.kind
           /\ e.kind # "ParseError" => v = e
           /\ e.kind = "ParseError" =>
                /\ v.detail.message = e.detail.message
                /\ v.detail.token = e.detail.token

\* C23: at most one suggestion is attached; a keyword hint 'Did you mean
\* ...' is chosen only when the token is a known misspelling of entity,
\* primary, unique or nullable, never when it is the keyword itself, and
\* then it wins over every message hint; a message hint, that of the first
\* pattern found, is used only when no keyword hint matched; the
\* classification, the message and the token of the error stay as they were,
\* and an error of another class is returned unchanged.
C23_SuggestionFirstMatch == SuggestionRule(Misspells)

\* what the code does: the same with 'holds a known misspelling' for 'is a
\* known misspelling', which the keyword entity itself does
C23_SuggestionOfFragments == SuggestionRule(HasMisspelling)

BreakPositions(text) == {i \in 1..Len(text) : SubSeq(text, i, i) = "\n"}

\* the position of the k-th line break of text
NthBreak(text, k) ==
    CHOOSE i \in BreakPositions(text) :
        Cardinality({j \in BreakPositions(text) : j <= i}) = k

\* the lines of text: a line break ends a line, a last line may lack it
NumLines(text) ==
    Cardinality(BreakPositions(text)) + (IF AfterLastBreak(text) > 0 THEN 1 ELSE 0)

\* the l-th line of text, 1-based, without its line break
LineAt(text, l) ==
    SubSeq(text,
           IF l = 1 THEN 1 ELSE NthBreak(text, l - 1) + 1,
           IF l <= Cardinality(BreakPositions(text)) THEN NthBreak(text, l) - 1 ELSE Len(text))

Stops == {" ", "\t", ",", "{", "}"}

\* the length of the run of characters other than Stops that starts at the
\* c-th character of text
Run(text, c) ==
    Cardinality({i \in c..Len(text) : \A j \in c..i : SubSeq(text, j, j) \notin Stops})

Spaces(n) == SubSeq("                ", 1, n)

Carets(n) == SubSeq("^^^^^^^^^^^^^^^^", 1, n)

\* C24: for 1 <= line <= number of lines and column - 1 <= length of that
\* line, extract_snippet returns exactly two lines: the source line, then
\* column - 1 spaces followed by max(1, n) carets, n being the length of the
\* run of characters that starts at the column and holds neither whitespace
\* nor ',', '{', '}'; for line = 0 or a line after the last one it returns the
\* empty string; it never fails.
C24_SnippetOfTwoLines ==
    diagnostic.op = "extract_snippet" =>
        LET source == diagnostic.source
            l == diagnostic.line
            c == diagnostic.column
        IN IF l = 0 \/ l > NumLines(source)
           THEN diagnostic.result = Returned("")
           ELSE (c >= 1 /\ c - 1 <= Len(LineAt(source, l))) =>
                    /\ ~diagnostic.result.panic
                    /\ diagnostic.result.value
                         = LineAt(source, l) \o "\n" \o Spaces(c - 1)
                           \o Carets(Max(1, Run(LineAt(source, l), c)))

\* the margin of a snippet line: the line number or nothing, right-aligned
\* in three places, then the bar
Margin(number) == SubSeq("   ", 1, 3 - Len(number)) \o number \o " | "

\* what the code returns on a line of one-byte characters: the two lines of
\* C24, each behind a margin; and outside the lines the empty string
C24_SnippetBehindMargin ==
    diagnostic.op = "extract_snippet" =>
        LET source == diagnostic.source
            l == diagnostic.line
            c == diagnostic.column
        IN IF l = 0 \/ l > NumLines(source)
           THEN diagnostic.result = Returned("")
           ELSE (/\ c >= 1 /\ c - 1 <= Len(LineAt(source, l))
                 /\ Bytes(LineAt(source, l)) = Len(LineAt(source, l))) =>
                    /\ ~diagnostic.result.panic
                    /\ diagnostic.result.value
                         = Margin(ToString(l)) \o LineAt(source, l) \o "\n"
                           \o Margin("") \o Spaces(c - 1)
                           \o Carets(Max(1, Run(LineAt(source, l), c)))

\* C24 on the lines that hold a wide character: the call does not fail
C24_SnippetNeverFails ==
    (/\ diagnostic.op = "extract_snippet"
     /\ diagnostic.line >= 1 /\ diagnostic.line <= NumLines(diagnostic.source)
     /\ diagnostic.column >= 1
     /\ diagnostic.column - 1 <= Len(LineAt(diagnostic.source, diagnostic.line))) =>
        ~diagnostic.result.panic

====
